---------------------------- MODULE Spec2Model ----------------------------
(***************************************************************************)
(* The x402 payment gate of nuwa-x402: gateWithX402Payment with its        *)
(* ensurePayment / settlePayment / retryWithBackoff helpers, and the       *)
(* OpenRouter proxy's debt ledger (pendingByAddress) layered on it through  *)
(* the dynamicConfig builder and the onSettle callback.                     *)
(*                                                                         *)
(* Each gate call is a small process (gate[c]) whose pc follows the awaits *)
(* of the TypeScript code; the ledger is the only state shared by calls.   *)
(* USD amounts are whole cents.  Strings that the code only passes along   *)
(* are atoms; strings the code parses or builds (facilitator error         *)
(* messages, the X-PAYMENT-RESPONSE value, the expose-headers list) are     *)
(* modelled by their content.                                               *)
(***************************************************************************)
EXTENDS Integers, Sequences, FiniteSets, TLC

\* ------------------------------------------------------------------------
\* Bounds of the model
\* ------------------------------------------------------------------------
MaxCalls == 2
MaxRetryAttempts == 4
MaxOwedUSD == 3

\* ------------------------------------------------------------------------
\* Program constants
\* ------------------------------------------------------------------------
X402_VERSION == 1
DEFAULT_SETTLEMENT_ATTEMPTS == 3
DEFAULT_BACKOFF_START_MS == 150
DEFAULT_MAX_DELAY_MS == 1000

X_PAYMENT_RESPONSE_HEADER == "X-PAYMENT-RESPONSE"

Undefined == "undefined"

CallIds == {1, 2}
SeqCalls == {1}

Addresses == {"0xaa", "0xbb"}
\* The strings the ledger's Map may be keyed by: an address as a lowercase
\* string and the same address in another letter case.
LedgerKeys == Addresses \cup {"0xAA"}
MaybeAddress == Addresses \cup {Undefined}

SupportedEVMNetworks == {"base-sepolia", "base"}
EnvNetworks == {"base-sepolia", "solana-devnet"}

\* ------------------------------------------------------------------------
\* Requests: the X-PAYMENT header as the caller sent it
\* ------------------------------------------------------------------------
\* kind "absent": no header; "malformed": decodePayment throws on it;
\* "payload": decodePayment returns a PaymentPayload.  `claimed` is what
\* dynamicConfig finds under payer ?? from ?? owner on the decoded object.
NoHeader == [kind |-> "absent", x402Version |-> 0, network |-> Undefined, claimed |-> Undefined]
MalformedHeader == [kind |-> "malformed", x402Version |-> 0, network |-> Undefined, claimed |-> Undefined]
Payload(version, network, claimed) ==
    [kind |-> "payload", x402Version |-> version, network |-> network, claimed |-> claimed]
PayloadHeaders ==
    { Payload(1, "base-sepolia", "0xaa"), Payload(1, "base-sepolia", "0xbb"),
      Payload(1, "base-sepolia", Undefined), Payload(2, "base-sepolia", "0xaa"),
      Payload(1, "base", "0xaa") }
Headers == {NoHeader, MalformedHeader} \cup PayloadHeaders

\* A decoded PaymentPayload, or the absence of one.
NoPayment == [defined |-> FALSE, x402Version |-> 0, scheme |-> Undefined, network |-> Undefined, claimed |-> Undefined]

\* Mutant: a decoder that accepts anything that is present.
decodePayment_Lenient(header) ==
    [ok |-> TRUE,
     payment |-> [defined |-> TRUE, x402Version |-> header.x402Version,
                  scheme |-> "exact", network |-> "base-sepolia",
                  claimed |-> header.claimed]]

\* exact.evm.decodePayment: throws (ok = FALSE) on a malformed header,
\* otherwise yields the payload with the version the caller declared.
decodePayment(header) ==
    IF header.kind = "payload"
    THEN [ok |-> TRUE,
          payment |-> [defined |-> TRUE, x402Version |-> header.x402Version,
                       scheme |-> "exact", network |-> header.network,
                       claimed |-> header.claimed]]
    ELSE [ok |-> FALSE, payment |-> NoPayment]

\* Mutant: whatever is in the header is handed on as a payload.
tryDecodePaymentHeader_Unchecked(header) ==
    IF header.kind = "absent" THEN NoPayment
    ELSE [defined |-> TRUE, x402Version |-> X402_VERSION, scheme |-> "exact",
          network |-> "base-sepolia", claimed |-> "0xaa"]

\* Mutant: the speculative decode gives up on every header.
tryDecodePaymentHeader_NeverDecodes(header) ==
    NoPayment

\* Mutant: the speculative decode hands on the version the caller declared.
tryDecodePaymentHeader_KeepsVersion(header) ==
    IF header.kind = "absent" THEN NoPayment
    ELSE decodePayment(header).payment

tryDecodePaymentHeader(header) ==
    IF header.kind = "absent" THEN NoPayment
    ELSE IF decodePayment(header).ok
         THEN [decodePayment(header).payment EXCEPT !.x402Version = X402_VERSION]
         ELSE NoPayment

\* ------------------------------------------------------------------------
\* The debt ledger (pendingByAddress) and the config it prices
\* ------------------------------------------------------------------------
\* The Map is a function to optionals: <<>> is "no entry", <<usd>> an entry.
getOwedUSD(ledger, addr) ==
    IF ledger[addr] = <<>> THEN 0 ELSE ledger[addr][1]

setOwedUSD(ledger, addr, usd) ==
    [ledger EXCEPT ![addr] = <<usd>>]

\* The cost extractor is a stub that answers 0 on every path.
extractCostUSD(status) == 0

\* Mutant: the builder prices the debt of a fixed address, not the claimed one.
dynamicConfig_IgnoresClaimed(ledger, rawPayment, network) ==
    [price |-> getOwedUSD(ledger, "0xbb"), priceOk |-> TRUE, network |-> network,
     payTo |-> "0xpayee"]

\* An EnsurePaymentConfig has price in cents; priceOk = FALSE stands for a
\* price that processPriceToAtomicAmount cannot convert.
\* Mutant: the builder quotes the proxy's flat default price.
dynamicConfig_FlatPrice(ledger, rawPayment, network) ==
    [price |-> 1, priceOk |-> TRUE, network |-> network, payTo |-> "0xpayee"]

dynamicConfig(ledger, rawPayment, network) ==
    LET claimed == rawPayment.claimed
        owedUSD == IF claimed # Undefined THEN getOwedUSD(ledger, claimed) ELSE 0
    IN  [price |-> owedUSD, priceOk |-> TRUE, network |-> network, payTo |-> "0xpayee"]

\* ------------------------------------------------------------------------
\* Requirements and responses
\* ------------------------------------------------------------------------
processPriceToAtomicAmount(price, priceOk, network) ==
    IF priceOk
    THEN [ok |-> TRUE, maxAmountRequired |-> price * 10000]
    ELSE [ok |-> FALSE, maxAmountRequired |-> 0]

NoRequirement ==
    [scheme |-> Undefined, network |-> Undefined, maxAmountRequired |-> 0, payTo |-> Undefined]

NoHeaders == [xPaymentResponse |-> <<>>, exposeHeaders |-> <<>>]
JSON_RESPONSE_HEADERS == [xPaymentResponse |-> <<>>, exposeHeaders |-> <<X_PAYMENT_RESPONSE_HEADER>>]
JSON_CONTENT_TYPE == NoHeaders

\* The headers of the gate's own JSON responses: the plugin variant exposes
\* X-PAYMENT-RESPONSE on them, the package variant sends the content type only.
ErrorHeaders(impl) == IF impl = "plugin" THEN JSON_RESPONSE_HEADERS ELSE JSON_CONTENT_TYPE

NoBody == [kind |-> "none", error |-> Undefined, accepts |-> <<>>, payer |-> Undefined,
           verificationError |-> Undefined]

NoResponse == [status |-> 0, body |-> NoBody, headers |-> NoHeaders]

ErrorBody(error, accepts, payer, verificationError) ==
    [kind |-> "x402", error |-> error, accepts |-> accepts, payer |-> payer,
     verificationError |-> verificationError]

\* Mutant: the payer is left out of the challenge.
buildPaymentRequiredResponse_DropsPayer(error, accepts, payer, verificationError, impl) ==
    [status |-> 402, body |-> ErrorBody(error, accepts, Undefined, verificationError),
     headers |-> ErrorHeaders(impl)]

buildPaymentRequiredResponse(error, accepts, payer, verificationError, impl) ==
    [status |-> 402, body |-> ErrorBody(error, accepts, payer, verificationError),
     headers |-> ErrorHeaders(impl)]

\* Mutant: the requirement is always built for the default price of one cent.
createPaymentRequirements_DefaultPrice(config, impl) ==
    [ok |-> TRUE,
     requirement |-> [scheme |-> "exact", network |-> config.network,
                      maxAmountRequired |-> 10000, payTo |-> config.payTo],
     response |-> NoResponse]

\* Mutant: the network is not checked against the supported set.
createPaymentRequirements_SkipsNetworkCheck(config, impl) ==
    LET atomic == processPriceToAtomicAmount(config.price, config.priceOk, config.network)
    IN  IF ~atomic.ok
        THEN [ok |-> FALSE, requirement |-> NoRequirement,
              response |-> [status |-> 500,
                            body |-> ErrorBody("Invalid price", <<>>, Undefined, Undefined),
                            headers |-> ErrorHeaders(impl)]]
        ELSE [ok |-> TRUE,
              requirement |-> [scheme |-> "exact", network |-> config.network,
                               maxAmountRequired |-> atomic.maxAmountRequired,
                               payTo |-> config.payTo],
              response |-> NoResponse]

\* createPaymentRequirements: a requirement (ok) or a 500 failure response.
createPaymentRequirements(config, impl) ==
    LET atomic == processPriceToAtomicAmount(config.price, config.priceOk, config.network)
    IN  IF ~atomic.ok
        THEN [ok |-> FALSE, requirement |-> NoRequirement,
              response |-> [status |-> 500,
                            body |-> ErrorBody("Invalid price", <<>>, Undefined, Undefined),
                            headers |-> ErrorHeaders(impl)]]
        ELSE IF config.network \notin SupportedEVMNetworks
        THEN [ok |-> FALSE, requirement |-> NoRequirement,
              response |-> [status |-> 500,
                            body |-> ErrorBody("Unsupported network", <<>>, Undefined, Undefined),
                            headers |-> ErrorHeaders(impl)]]
        ELSE [ok |-> TRUE,
              requirement |-> [scheme |-> "exact", network |-> config.network,
                               maxAmountRequired |-> atomic.maxAmountRequired,
                               payTo |-> config.payTo],
              response |-> NoResponse]

\* findMatchingPaymentRequirements: first requirement with the payload's
\* scheme and network; <<>> when there is none.
findMatchingPaymentRequirements(requirements, payment) ==
    LET matching == {i \in 1..Len(requirements) :
                        /\ requirements[i].scheme = payment.scheme
                        /\ requirements[i].network = payment.network}
    IN  IF matching = {} THEN <<>>
        ELSE <<requirements[CHOOSE i \in matching : \A j \in matching : i <= j]>>


\* ------------------------------------------------------------------------
\* Facilitator results and errors
\* ------------------------------------------------------------------------
\* A thrown value: isError says whether it is an instance of Error, message
\* is its message.
NoError == [thrown |-> FALSE, isError |-> FALSE, message |-> Undefined]
Thrown(isError, message) ==
    [thrown |-> TRUE, isError |-> isError, message |-> message]

SettleErrors ==
    { Thrown(TRUE, "Failed to settle payment: 503"),
      Thrown(TRUE, "Failed to settle payment: 400"),
      Thrown(TRUE, "fetch failed"),
      Thrown(FALSE, "not an Error") }

VerifyErrors == { Thrown(TRUE, "Failed to verify payment: 500") }

\* message.match(/Failed to settle payment:\s+(\d{3})/), as a number; 0 when
\* the message does not match.
SettleStatusMatch(message) ==
    CASE message = "Failed to settle payment: 503" -> 503
      [] message = "Failed to settle payment: 400" -> 400
      [] OTHER -> 0

\* Mutant: an error without a status counts as a server failure.
extractFacilitatorStatus_DefaultsTo500(error) ==
    IF error.isError /\ SettleStatusMatch(error.message) # 0
    THEN SettleStatusMatch(error.message)
    ELSE 500

\* Mutant: the status is never found in the message.
extractFacilitatorStatus_NoMatch(error) == 0

\* extractFacilitatorStatus: 0 stands for undefined.
extractFacilitatorStatus(error) ==
    IF ~error.isError THEN 0 ELSE SettleStatusMatch(error.message)

NoSettlement ==
    [defined |-> FALSE, success |-> FALSE, transaction |-> Undefined,
     network |-> Undefined, payer |-> Undefined]
SettleResponses ==
    [defined : {TRUE}, success : BOOLEAN, transaction : {"0xtx"},
     network : {"base-sepolia"}, payer : MaybeAddress]

VerifyResponses ==
    [isValid : {TRUE}, invalidReason : {Undefined}, payer : {"0xaa"}]
    \cup [isValid : {FALSE}, invalidReason : {"insufficient_funds", Undefined},
          payer : MaybeAddress]

\* ------------------------------------------------------------------------
\* Retry policy
\* ------------------------------------------------------------------------
DefaultRetry ==
    [maxAttempts |-> DEFAULT_SETTLEMENT_ATTEMPTS,
     initialDelayMs |-> DEFAULT_BACKOFF_START_MS,
     maxDelayMs |-> DEFAULT_MAX_DELAY_MS]

Min(a, b) == IF a <= b THEN a ELSE b

\* Retry options a caller of the package's settlePayment may pass: any
\* number of attempts up to the bound, none included, a start below or
\* above the cap.
RetryOptionsSet ==
    [maxAttempts : 0..MaxRetryAttempts, initialDelayMs : {150, 400},
     maxDelayMs : {100, 1000}]

\* Mutant: the delay is not capped.
BackoffDelay_Uncapped(retry, attempt) ==
    retry.initialDelayMs * 2 ^ (attempt - 1)

\* Mutant: the exponent is off by one.
BackoffDelay_OffByOne(retry, attempt) ==
    Min(retry.initialDelayMs * 2 ^ attempt, retry.maxDelayMs)

\* The sleep after the attempt-th failure: min(initial * 2^(attempt-1), max).
BackoffDelay(retry, attempt) ==
    Min(retry.initialDelayMs * 2 ^ (attempt - 1), retry.maxDelayMs)


\* ------------------------------------------------------------------------
\* The X-PAYMENT-RESPONSE value: JSON text, base64
\* ------------------------------------------------------------------------
\* JSON text is a sequence of tokens, one byte each; base64 works on the
\* bytes.  A base64 character is its index in the standard alphabet
\* (62 "+", 63 "/"), 64 for "=", 65 for "-" and 66 for "_".
JsonTokens ==
    << "{", "}", ":", ",", "true", "false", "success", "transaction", "network",
       "payer", "0xtx", "base-sepolia", "0xaa", "0xbb" >>

TokenByte(t) ==
    LET i == CHOOSE k \in 1..Len(JsonTokens) : JsonTokens[k] = t
    IN  (i * 17 + 5) % 256

\* JSON.stringify of {success: true, transaction, network, payer}: members
\* whose value is undefined are left out.
JsonStringify(payload) ==
    LET member(k, v) == IF v = Undefined THEN <<>> ELSE <<",", k, ":", v>>
    IN  <<"{", "success", ":", IF payload.success THEN "true" ELSE "false">>
        \o member("transaction", payload.transaction)
        \o member("network", payload.network)
        \o member("payer", payload.payer)
        \o <<"}">>

Utf8Bytes(text) == [i \in 1..Len(text) |-> TokenByte(text[i])]

\* safeBase64Encode: standard alphabet, padded.
safeBase64Encode(text) ==
    LET bytes == Utf8Bytes(text)
        n == Len(bytes)
        byte(i) == IF i <= n THEN bytes[i] ELSE 0
        char(k) ==
            LET g == (k - 1) \div 4
                j == (k - 1) % 4
                b1 == byte(3 * g + 1)
                b2 == byte(3 * g + 2)
                b3 == byte(3 * g + 3)
            IN  CASE j = 0 -> b1 \div 4
                  [] j = 1 -> (b1 % 4) * 16 + b2 \div 16
                  [] j = 2 -> IF 3 * g + 2 > n THEN 64 ELSE (b2 % 16) * 4 + b3 \div 64
                  [] j = 3 -> IF 3 * g + 3 > n THEN 64 ELSE b3 % 64
    IN  [k \in 1..(4 * ((n + 2) \div 3)) |-> char(k)]

\* base64UrlToBase64: "-" to "+", "_" to "/", then pad to a multiple of 4.
base64UrlToBase64(input) ==
    LET s == [i \in 1..Len(input) |->
                 CASE input[i] = 65 -> 62 [] input[i] = 66 -> 63 [] OTHER -> input[i]]
        pad == IF Len(s) % 4 = 0 THEN 0 ELSE 4 - (Len(s) % 4)
    IN  s \o [i \in 1..pad |-> 64]

\* Buffer.from(b64, "base64"): the bytes of the characters before the padding.
Base64Decode(b64) ==
    LET stops == {i \in 1..Len(b64) : b64[i] = 64}
        m == IF stops = {} THEN Len(b64)
             ELSE (CHOOSE i \in stops : \A j \in stops : i <= j) - 1
        sx(q) == CASE b64[q] = 65 -> 62 [] b64[q] = 66 -> 63 [] OTHER -> b64[q]
        byte(i) ==
            LET q == ((i - 1) * 8) \div 6 + 1
                r == ((i - 1) * 8) % 6
            IN  CASE r = 0 -> sx(q) * 4 + sx(q + 1) \div 16
                  [] r = 2 -> (sx(q) % 16) * 16 + sx(q + 1) \div 4
                  [] r = 4 -> (sx(q) % 4) * 64 + sx(q + 1)
    IN  [i \in 1..((m * 6) \div 8) |-> byte(i)]

NoJson ==
    [defined |-> FALSE, success |-> FALSE, transaction |-> Undefined,
     network |-> Undefined, payer |-> Undefined]

\* JSON.parse of the decoded bytes: NoJson when the text is not an object.
JsonParse(bytes) ==
    LET known == {i \in 1..Len(bytes) :
                     \E k \in 1..Len(JsonTokens) : TokenByte(JsonTokens[k]) = bytes[i]}
        tok(i) == JsonTokens[CHOOSE k \in 1..Len(JsonTokens) :
                                TokenByte(JsonTokens[k]) = bytes[i]]
        n == Len(bytes)
        m == (n - 1) \div 4
        wellFormed ==
            /\ known = 1..n
            /\ n >= 5
            /\ (n - 1) % 4 = 0
            /\ tok(1) = "{"
            /\ tok(n) = "}"
            /\ \A j \in 1..m : tok(4 * j - 1) = ":"
            /\ \A j \in 1..(m - 1) : tok(4 * j + 1) = ","
        value(k) ==
            LET at == {j \in 1..m : tok(4 * j - 2) = k}
            IN  IF at = {} THEN Undefined
                ELSE tok(4 * (CHOOSE j \in at : \A i \in at : i <= j))
    IN  IF ~wellFormed THEN NoJson
        ELSE [defined |-> TRUE, success |-> value("success") = "true",
              transaction |-> value("transaction"), network |-> value("network"),
              payer |-> value("payer")]

\* decodePaymentResponseHeader: the parsed object when its success is truthy.
decodePaymentResponseHeader(headers) ==
    LET header == headers.xPaymentResponse
        json == JsonParse(Base64Decode(base64UrlToBase64(header)))
    IN  IF header = <<>> THEN NoJson
        ELSE IF json.defined /\ json.success THEN json
        ELSE NoJson

\* What an upstream response may already carry under X-PAYMENT-RESPONSE.
UpstreamPaymentResponse ==
    safeBase64Encode(JsonStringify([success |-> FALSE, transaction |-> Undefined,
                                    network |-> Undefined, payer |-> Undefined]))

\* ensurePaymentResponseIsExposed on a header set.  The expose list is the
\* sequence of its comma-separated entries.
LowerCase(name) ==
    CASE name = "X-PAYMENT-RESPONSE" -> "x-payment-response"
      [] name = "X-Custom" -> "x-custom"
      [] name = "0xAA" -> "0xaa"
      [] OTHER -> name

\* Mutant: the header name is appended to the expose list without looking
\* for it there.
ensurePaymentResponseIsExposed_AlwaysAppends(headers) ==
    IF headers.xPaymentResponse = <<>> THEN headers
    ELSE [headers EXCEPT !.exposeHeaders = @ \o <<X_PAYMENT_RESPONSE_HEADER>>]

ensurePaymentResponseIsExposed(headers) ==
    IF headers.xPaymentResponse = <<>> THEN headers
    ELSE IF headers.exposeHeaders = <<>>
         THEN [headers EXCEPT !.exposeHeaders = <<X_PAYMENT_RESPONSE_HEADER>>]
         ELSE IF \E i \in 1..Len(headers.exposeHeaders) :
                    LowerCase(headers.exposeHeaders[i]) = LowerCase(X_PAYMENT_RESPONSE_HEADER)
              THEN headers
              ELSE [headers EXCEPT !.exposeHeaders = @ \o <<X_PAYMENT_RESPONSE_HEADER>>]

\* forwardOpenRouter of the proxy built on the package's gate: the expose
\* list of the gate's response is given the header name unless it has it,
\* whether or not the response carries the header.
forwardOpenRouterExpose(headers) ==
    IF headers.exposeHeaders = <<>>
    THEN [headers EXCEPT !.exposeHeaders = <<X_PAYMENT_RESPONSE_HEADER>>]
    ELSE IF \E i \in 1..Len(headers.exposeHeaders) :
               LowerCase(headers.exposeHeaders[i]) = LowerCase(X_PAYMENT_RESPONSE_HEADER)
         THEN headers
         ELSE [headers EXCEPT !.exposeHeaders = @ \o <<X_PAYMENT_RESPONSE_HEADER>>]


\* ------------------------------------------------------------------------
\* State
\* ------------------------------------------------------------------------
VARIABLES
    gate,               \* gate[c]: the locals of gate call c and where it stands
    pendingByAddress,   \* the debt ledger
    started,            \* how many gate calls have begun
    tool                \* the locals of the paid MCP tool's call and where it stands

vars == <<gate, pendingByAddress, started, tool>>

NoSet == [defined |-> FALSE, payer |-> Undefined, usd |-> 0]

\* The config argument: a fixed EnsurePaymentConfig, or (builder) the
\* proxy's dynamicConfig, which prices from the ledger on env.NETWORK.
ConfigArgs ==
    [builder : {FALSE}, price : {1}, priceOk : BOOLEAN, network : EnvNetworks,
     payTo : {"0xpayee"}]
    \cup [builder : {TRUE}, price : {0}, priceOk : {TRUE}, network : EnvNetworks,
          payTo : {"0xpayee"}]

NoConfig == [price |-> 0, priceOk |-> FALSE, network |-> Undefined, payTo |-> Undefined]

\* GateOptions: the onSettle callback ("ledger" is the proxy's onSettle,
\* "throws" one that throws, "none" its absence) and settleOnError.
GateOptionsSet ==
    [onSettle : {"none", "ledger", "throws"}, settleOnError : {FALSE}, retry : {DefaultRetry}]
    \cup [onSettle : {"ledger"}, settleOnError : {TRUE}, retry : {DefaultRetry}]

\* What the protected operation hands back: a response, or an exception.
\* cost says whether the proxy's handler got to compute nextCostUSD.
UpstreamHeaders ==
    { [xPaymentResponse |-> <<>>, exposeHeaders |-> <<>>],
      [xPaymentResponse |-> <<>>, exposeHeaders |-> <<"X-Custom">>],
      [xPaymentResponse |-> <<>>, exposeHeaders |-> <<"X-Custom", "x-payment-response">>],
      [xPaymentResponse |-> UpstreamPaymentResponse, exposeHeaders |-> <<>>] }

UpstreamResponses ==
    [status : {200, 404}, body : {[NoBody EXCEPT !.kind = "upstream"]},
     headers : UpstreamHeaders]

FetchFailedResponse ==
    [status |-> 502, body |-> [NoBody EXCEPT !.kind = "upstream", !.error = "fetch failed"],
     headers |-> NoHeaders]

HandlerOutcomes ==
    [threw : {FALSE}, response : UpstreamResponses, cost : {TRUE}]
    \cup {[threw |-> FALSE, response |-> FetchFailedResponse, cost |-> FALSE],
          [threw |-> TRUE, response |-> NoResponse, cost |-> FALSE]}

\* config.config.errorMessages: the texts a deployment may put in place of
\* the gate's own.
NoErrorMessages == [verificationFailed |-> Undefined]
ErrorMessagesSet == [verificationFailed : {Undefined, "custom verification message"}]

NoVerification == [defined |-> FALSE, isValid |-> FALSE, invalidReason |-> Undefined,
                   payer |-> Undefined]

NoSettlementResult == [defined |-> FALSE, ok |-> FALSE, response |-> NoResponse,
                       settlement |-> NoSettlement]

IdleGate ==
    [pc |-> "idle",
     impl |-> "plugin",
     header |-> NoHeader,
     config |-> [builder |-> FALSE, price |-> 1, priceOk |-> TRUE,
                 network |-> "base-sepolia", payTo |-> "0xpayee"],
     options |-> [onSettle |-> "none", settleOnError |-> FALSE, retry |-> DefaultRetry],
     rawPayment |-> NoPayment,
     concreteConfig |-> NoConfig,
     paymentRequirements |-> <<>>,
     decodedPayment |-> NoPayment,
     selectedRequirement |-> NoRequirement,
     operationResponse |-> NoResponse,
     upstreamResponse |-> NoResponse,
     nextCostUSD |-> <<>>,
     attempt |-> 0,
     lastError |-> NoError,
     thrown |-> <<>>,
     delays |-> <<>>,
     settlementResult |-> NoSettlementResult,
     outcome |-> "pending",
     response |-> NoResponse,
     events |-> <<>>,
     ledgerWrite |-> NoSet,
     prevWrite |-> NoSet,
     pricedDuring |-> {},
     errorMessages |-> NoErrorMessages,
     verification |-> NoVerification]

\* ------------------------------------------------------------------------
\* The paid MCP tool: data
\* ------------------------------------------------------------------------
\* _meta["x402/payment-response"] of a tool result, or its absence.
NoPaymentResponseMeta ==
    [defined |-> FALSE, success |-> FALSE, transaction |-> Undefined,
     network |-> Undefined, payer |-> Undefined]

\* A payment response that the tool's own result already carries, as when
\* the tool passes on the result of another paid tool.
ForeignPaymentResponseMeta ==
    [defined |-> TRUE, success |-> TRUE, transaction |-> "0xforeign",
     network |-> "base", payer |-> "0xbb"]

NoToolResult ==
    [defined |-> FALSE, isError |-> FALSE, kind |-> "none", error |-> Undefined,
     accepts |-> <<>>, payer |-> Undefined, meta |-> NoPaymentResponseMeta]

\* Mutant: the error object is built without its accepts array.
makeErrorResponse_NoAccepts(error, accepts, payer) ==
    [defined |-> TRUE, isError |-> TRUE, kind |-> "x402", error |-> error,
     accepts |-> <<>>, payer |-> payer, meta |-> NoPaymentResponseMeta]

\* makeErrorResponse({x402Version, error, accepts, payer}); accepts is <<>>
\* when the object has no accepts key.
makeErrorResponse(error, accepts, payer) ==
    [defined |-> TRUE, isError |-> TRUE, kind |-> "x402", error |-> error,
     accepts |-> accepts, payer |-> payer, meta |-> NoPaymentResponseMeta]

\* What the tool callback hands back: a result (an error result or not,
\* with or without a payment response of its own), or an exception.
ToolResults ==
    [defined : {TRUE}, isError : BOOLEAN, kind : {"tool"}, error : {Undefined},
     accepts : {<<>>}, payer : {Undefined},
     meta : {NoPaymentResponseMeta, ForeignPaymentResponseMeta}]

CallbackOutcomes ==
    [threw : {FALSE}, result : ToolResults]
    \cup {[threw |-> TRUE, result |-> NoToolResult]}

\* The result the wrapper puts in place of a callback's exception.
ToolExecutionFailed ==
    [defined |-> TRUE, isError |-> TRUE, kind |-> "tool",
     error |-> "Tool execution failed", accepts |-> <<>>, payer |-> Undefined,
     meta |-> NoPaymentResponseMeta]

IdleTool ==
    [pc |-> "idle",
     price |-> 1,
     priceOk |-> TRUE,
     network |-> "base-sepolia",
     payment |-> NoHeader,
     paymentRequirements |-> NoRequirement,
     decodedPayment |-> NoPayment,
     verification |-> NoVerification,
     cbResult |-> NoToolResult,
     executionError |-> FALSE,
     settlement |-> NoSettlement,
     outcome |-> "pending",
     result |-> NoToolResult,
     events |-> <<>>]

Init ==
    /\ gate = [c \in CallIds |-> IdleGate]
    /\ pendingByAddress = [a \in LedgerKeys |-> <<>>]
    /\ started = 0
    /\ tool = IdleTool

\* ------------------------------------------------------------------------
\* Helpers on a call's record
\* ------------------------------------------------------------------------
Count(events, name) == Cardinality({i \in 1..Len(events) : events[i] = name})

\* The call returns `response` to its caller.
Return(g, response) ==
    [g EXCEPT !.pc = "done", !.outcome = "returned", !.response = response,
              !.events = @ \o <<"return">>]

\* The call's promise rejects: an exception escapes the gate.
Reject(g) ==
    [g EXCEPT !.pc = "done", !.outcome = "threw", !.events = @ \o <<"throw">>]


\* ------------------------------------------------------------------------
\* gateWithX402Payment, step by step
\* ------------------------------------------------------------------------
\* A caller invokes the gate.  The package variant takes a fixed config and
\* has no settleOnError; the plugin variant also takes a builder.
Begin(c) ==
    /\ gate[c].pc = "idle"
    /\ started < MaxCalls
    /\ \E impl \in {"plugin", "pkg"}, header \in Headers, config \in ConfigArgs,
          options \in GateOptionsSet, errorMessages \in ErrorMessagesSet :
          /\ impl = "pkg" =>
                /\ ~config.builder
                /\ ~options.settleOnError
                /\ options.onSettle # "ledger"
          /\ errorMessages # NoErrorMessages =>
                /\ ~config.builder
                /\ options.onSettle = "none"
          /\ gate' = [gate EXCEPT ![c] =
                [IdleGate EXCEPT
                    !.pc = IF impl = "plugin" THEN "start" ELSE "ensure",
                    !.impl = impl,
                    !.header = header,
                    !.config = config,
                    !.options = options,
                    !.errorMessages = errorMessages,
                    !.concreteConfig =
                        IF impl = "plugin" THEN NoConfig
                        ELSE [price |-> config.price, priceOk |-> config.priceOk,
                              network |-> config.network, payTo |-> config.payTo],
                    !.prevWrite = gate[c].prevWrite]]
    /\ started' = started + 1
    /\ UNCHANGED pendingByAddress

\* The other calls that the builder has priced from the ledger and that have
\* not yet reached the end of their onSettle.
InFlightPriced(c) ==
    {d \in CallIds \ {c} :
        /\ gate[d].config.builder
        /\ gate[d].pc \in {"ensure", "verify", "handler", "settle", "attempt",
                           "sleep", "settled", "onSettle"}}

\* Plugin variant: the speculative decode, then the config (the builder is
\* awaited and reads the ledger).
ResolveConfig(c) ==
    LET g == gate[c]
        rawPayment == tryDecodePaymentHeader(g.header)
    IN  /\ g.pc = "start"
        /\ gate' = [gate EXCEPT ![c] =
              [g EXCEPT
                  !.pc = "ensure",
                  !.rawPayment = rawPayment,
                  !.pricedDuring = IF g.config.builder THEN InFlightPriced(c) ELSE {},
                  !.concreteConfig =
                      IF g.config.builder
                      THEN dynamicConfig(pendingByAddress, rawPayment, g.config.network)
                      ELSE [price |-> g.config.price, priceOk |-> g.config.priceOk,
                            network |-> g.config.network, payTo |-> g.config.payTo],
                  !.events = IF g.config.builder THEN @ \o <<"builder">> ELSE @]]
        /\ UNCHANGED <<pendingByAddress, started>>

\* ensurePayment up to its await of verify: requirement, header, decode,
\* matching requirement.
EnsurePayment(c) ==
    LET g == gate[c]
        built == createPaymentRequirements(g.concreteConfig, g.impl)
        paymentRequirements == <<built.requirement>>
        decoded == decodePayment(g.header)
        decodedPayment == [decoded.payment EXCEPT !.x402Version = X402_VERSION]
        selected == findMatchingPaymentRequirements(paymentRequirements, decodedPayment)
        g1 == [g EXCEPT !.paymentRequirements = paymentRequirements,
                        !.events = @ \o <<"requirement">>]
        g2 == [g1 EXCEPT !.events = @ \o <<"decode">>]
    IN  /\ g.pc = "ensure"
        /\ gate' = [gate EXCEPT ![c] =
              IF ~built.ok THEN Return(g, built.response)
              ELSE IF g.header.kind = "absent"
              THEN Return(g1, buildPaymentRequiredResponse(
                        "X-PAYMENT header is required", paymentRequirements,
                        Undefined, Undefined, g.impl))
              ELSE IF ~decoded.ok
              THEN Return(g2, buildPaymentRequiredResponse(
                        "Invalid payment", paymentRequirements,
                        Undefined, Undefined, g.impl))
              ELSE IF selected = <<>>
              THEN Return([g2 EXCEPT !.decodedPayment = decodedPayment],
                          buildPaymentRequiredResponse(
                              "Unable to find matching payment requirements",
                              paymentRequirements, Undefined, Undefined, g.impl))
              ELSE [g2 EXCEPT !.pc = "verify",
                              !.decodedPayment = decodedPayment,
                              !.selectedRequirement = selected[1]]]
        /\ UNCHANGED <<pendingByAddress, started>>

\* Mutant: the operation is run optimistically while verify is pending.
Verify_RunsOperationFirst(c) ==
    LET g == gate[c]
        g1 == [g EXCEPT !.events = @ \o <<"handler", "handlerReturned", "verify">>]
    IN  /\ g.pc = "verify"
        /\ \E v \in VerifyResponses :
              LET g2 == [g1 EXCEPT !.verification =
                            [defined |-> TRUE, isValid |-> v.isValid,
                             invalidReason |-> v.invalidReason, payer |-> v.payer]]
              IN  gate' = [gate EXCEPT ![c] =
                      IF ~v.isValid
                      THEN Return(g2, buildPaymentRequiredResponse(
                                "Payment verification failed",
                                g.paymentRequirements, v.payer, Undefined, g.impl))
                      ELSE [g2 EXCEPT !.pc = "settle",
                                      !.operationResponse = FetchFailedResponse,
                                      !.upstreamResponse = FetchFailedResponse]]
        /\ UNCHANGED <<pendingByAddress, started>>

\* The facilitator answers (or fails) the verify request.  The plugin
\* variant catches a throw; the package variant lets it escape.
Verify(c) ==
    LET g == gate[c]
        g1 == [g EXCEPT !.events = @ \o <<"verify">>]
    IN  /\ g.pc = "verify"
        /\ \/ \E e \in VerifyErrors :
                gate' = [gate EXCEPT ![c] =
                    IF g.impl = "plugin"
                    THEN Return(g1, buildPaymentRequiredResponse(
                              IF g.errorMessages.verificationFailed # Undefined
                              THEN g.errorMessages.verificationFailed ELSE e.message,
                              g.paymentRequirements, Undefined,
                              e.message, g.impl))
                    ELSE Reject(g1)]
           \/ \E v \in VerifyResponses :
                LET g2 == [g1 EXCEPT !.verification =
                              [defined |-> TRUE, isValid |-> v.isValid,
                               invalidReason |-> v.invalidReason, payer |-> v.payer]]
                IN  gate' = [gate EXCEPT ![c] =
                        IF ~v.isValid
                        THEN Return(g2, buildPaymentRequiredResponse(
                                  IF g.errorMessages.verificationFailed # Undefined
                                  THEN g.errorMessages.verificationFailed
                                  ELSE IF v.invalidReason # Undefined THEN v.invalidReason
                                  ELSE "Payment verification failed",
                                  g.paymentRequirements, v.payer, Undefined, g.impl))
                        ELSE [g2 EXCEPT !.pc = "handler", !.events = @ \o <<"verified">>]]
        /\ UNCHANGED <<pendingByAddress, started>>

\* The protected operation runs.  Neither variant catches its exception.
Handler(c) ==
    LET g == gate[c]
        g1 == [g EXCEPT !.events = @ \o <<"handler">>]
    IN  /\ g.pc = "handler"
        /\ \E o \in HandlerOutcomes :
              gate' = [gate EXCEPT ![c] =
                  IF o.threw THEN Reject(g1)
                  ELSE [g1 EXCEPT !.pc = "settle",
                                  !.events = @ \o <<"handlerReturned">>,
                                  !.operationResponse = o.response,
                                  !.upstreamResponse = o.response,
                                  !.nextCostUSD =
                                      IF o.cost THEN <<extractCostUSD(o.response.status)>>
                                      ELSE <<>>]]
        /\ UNCHANGED <<pendingByAddress, started>>


\* retryWithBackoff's final throw: the last error when it is an Error,
\* otherwise a fresh Error.
RetryFinalError(lastError) ==
    IF lastError.isError THEN lastError
    ELSE Thrown(TRUE, "Operation failed after retries")

\* Mutant: one server failure among the attempts is enough for a 502.
SettlementFailure_AnyServerFailure(g, error) ==
    IF \/ extractFacilitatorStatus(error) >= 500
       \/ \E i \in 1..Len(g.thrown) : extractFacilitatorStatus(g.thrown[i]) >= 500
    THEN [defined |-> TRUE, ok |-> FALSE,
          response |->
              [status |-> 502,
               body |-> ErrorBody(
                   "Settlement service is temporarily unavailable. Please retry.",
                   <<g.selectedRequirement>>, Undefined, Undefined),
               headers |-> ErrorHeaders(g.impl)],
          settlement |-> NoSettlement]
    ELSE [defined |-> TRUE, ok |-> FALSE,
          response |-> buildPaymentRequiredResponse(
              IF error.isError THEN error.message ELSE "Settlement failed",
              <<g.selectedRequirement>>, Undefined, Undefined, g.impl),
          settlement |-> NoSettlement]

\* settlePayment's catch block: 502 when the error carries a facilitator
\* status >= 500, the 402 challenge otherwise.
SettlementFailure(g, error) ==
    LET facilitatorStatus == extractFacilitatorStatus(error)
        accepts == IF g.impl = "plugin" THEN g.paymentRequirements
                   ELSE <<g.selectedRequirement>>
    IN  IF facilitatorStatus # 0 /\ facilitatorStatus >= 500
        THEN [defined |-> TRUE, ok |-> FALSE,
              response |->
                  [status |-> 502,
                   body |-> ErrorBody(
                       IF g.impl = "plugin"
                       THEN "Settlement service is temporarily unavailable. Please retry."
                       ELSE error.message,
                       accepts, Undefined, Undefined),
                   headers |-> ErrorHeaders(g.impl)],
              settlement |-> NoSettlement]
        ELSE [defined |-> TRUE, ok |-> FALSE,
              response |-> buildPaymentRequiredResponse(
                  IF error.isError THEN error.message ELSE "Settlement failed",
                  accepts, Undefined, Undefined, g.impl),
              settlement |-> NoSettlement]

\* Mutant: the payer is left out of the evidence.
PaymentResponseHeaderValue_OmitsPayer(settlement) ==
    safeBase64Encode(JsonStringify(
        [success |-> TRUE, transaction |-> settlement.transaction,
         network |-> settlement.network, payer |-> Undefined]))

\* The evidence written under X-PAYMENT-RESPONSE.
PaymentResponseHeaderValue(settlement) ==
    safeBase64Encode(JsonStringify(
        [success |-> TRUE, transaction |-> settlement.transaction,
         network |-> settlement.network, payer |-> settlement.payer]))

\* Mutant: the response goes out first and settlement runs after it.
SettlePayment_AfterResponding(c) ==
    LET g == gate[c] IN
    /\ g.pc = "settle"
    /\ gate' = [gate EXCEPT ![c] =
          [g EXCEPT !.pc = "attempt", !.outcome = "returned",
                    !.response = g.upstreamResponse,
                    !.events = @ \o <<"return">>]]
    /\ UNCHANGED <<pendingByAddress, started>>

\* Mutant: the retry loop makes its first attempt before it looks at
\* maxAttempts.
SettlePayment_AtLeastOnce(c) ==
    LET g == gate[c] IN
    /\ g.pc = "settle"
    /\ gate' = [gate EXCEPT ![c] =
          IF g.upstreamResponse.status >= 400
          THEN [g EXCEPT !.pc = "settled",
                         !.settlementResult =
                             [defined |-> TRUE, ok |-> TRUE,
                              response |-> g.upstreamResponse,
                              settlement |-> NoSettlement]]
          ELSE [g EXCEPT !.pc = "attempt"]]
    /\ UNCHANGED <<pendingByAddress, started>>

\* settlePayment before its first settle call: the skip on an error status,
\* and a retry loop that never runs when maxAttempts <= 0.
SettlePayment(c) ==
    LET g == gate[c] IN
    /\ g.pc = "settle"
    /\ gate' = [gate EXCEPT ![c] =
          IF g.upstreamResponse.status >= 400
          THEN [g EXCEPT !.pc = "settled",
                         !.settlementResult =
                             [defined |-> TRUE, ok |-> TRUE,
                              response |-> g.upstreamResponse,
                              settlement |-> NoSettlement]]
          ELSE IF ~(0 < g.options.retry.maxAttempts)
          THEN [g EXCEPT !.pc = "settled",
                         !.settlementResult =
                             SettlementFailure(g, RetryFinalError(g.lastError))]
          ELSE [g EXCEPT !.pc = "attempt"]]
    /\ UNCHANGED <<pendingByAddress, started>>

\* Mutant: the attempt counter is one variable shared by all calls.
SettleAttempt_SharedCounter(c) ==
    LET g == gate[c]
        g1 == [g EXCEPT !.events = @ \o <<"settle">>]
        others == {d \in CallIds \ {c} : gate[d].attempt > 0}
    IN  /\ g.pc = "attempt"
        /\ \/ \E r \in SettleResponses :
                gate' = [gate EXCEPT ![c] =
                    [g1 EXCEPT !.pc = "settled",
                               !.events = @ \o <<"settleReturned">>,
                               !.settlementResult =
                                   [defined |-> TRUE, ok |-> TRUE,
                                    response |-> g.upstreamResponse, settlement |-> r]]]
           \/ \E e \in SettleErrors :
                LET attempt == g.attempt + 1 + Cardinality(others) IN
                gate' = [gate EXCEPT ![c] =
                    IF attempt >= g.options.retry.maxAttempts
                    THEN [g1 EXCEPT !.pc = "settled",
                                    !.events = @ \o <<"settleThrew">>,
                                    !.thrown = @ \o <<e>>,
                                    !.lastError = e,
                                    !.attempt = attempt,
                                    !.settlementResult =
                                        SettlementFailure(g, RetryFinalError(e))]
                    ELSE [g1 EXCEPT !.pc = "sleep",
                                    !.events = @ \o <<"settleThrew">>,
                                    !.thrown = @ \o <<e>>,
                                    !.lastError = e,
                                    !.attempt = attempt]]
        /\ UNCHANGED <<pendingByAddress, started>>

\* One pass of the retry loop: the facilitator's settle returns or throws.
SettleAttempt(c) ==
    LET g == gate[c]
        g1 == [g EXCEPT !.events = @ \o <<"settle">>]
    IN  /\ g.pc = "attempt"
        /\ \/ \E r \in SettleResponses :
                LET response ==
                        IF g.impl = "pkg" /\ r.success
                        THEN [g.upstreamResponse EXCEPT
                                 !.headers.xPaymentResponse = PaymentResponseHeaderValue(r)]
                        ELSE g.upstreamResponse
                IN  gate' = [gate EXCEPT ![c] =
                        [g1 EXCEPT !.pc = "settled",
                                   !.events = @ \o <<"settleReturned">>,
                                   !.upstreamResponse = response,
                                   !.settlementResult =
                                       [defined |-> TRUE, ok |-> TRUE,
                                        response |-> response, settlement |-> r]]]
           \/ \E e \in SettleErrors :
                LET attempt == g.attempt + 1 IN
                gate' = [gate EXCEPT ![c] =
                    IF attempt >= g.options.retry.maxAttempts
                    THEN [g1 EXCEPT !.pc = "settled",
                                    !.events = @ \o <<"settleThrew">>,
                                    !.thrown = @ \o <<e>>,
                                    !.lastError = e,
                                    !.attempt = attempt,
                                    !.settlementResult =
                                        SettlementFailure(g, RetryFinalError(e))]
                    ELSE [g1 EXCEPT !.pc = "sleep",
                                    !.events = @ \o <<"settleThrew">>,
                                    !.thrown = @ \o <<e>>,
                                    !.lastError = e,
                                    !.attempt = attempt]]
        /\ UNCHANGED <<pendingByAddress, started>>

\* Mutant: the retry re-enters the gate at the protected operation.
Sleep_RerunsHandler(c) ==
    LET g == gate[c] IN
    /\ g.pc = "sleep"
    /\ gate' = [gate EXCEPT ![c] = [g EXCEPT !.pc = "handler"]]
    /\ UNCHANGED <<pendingByAddress, started>>

\* Mutant: after a sleep the retry loop starts over, its attempts forgotten.
Sleep_RestartsRetries(c) ==
    LET g == gate[c]
        upToHandler == CHOOSE n \in 1..Len(g.events) : g.events[n] = "handlerReturned"
    IN  /\ g.pc = "sleep"
        /\ gate' = [gate EXCEPT ![c] =
              [g EXCEPT !.pc = "attempt",
                        !.attempt = 0,
                        !.thrown = <<>>,
                        !.lastError = NoError,
                        !.delays = <<>>,
                        !.events = SubSeq(@, 1, upToHandler)]]
        /\ UNCHANGED <<pendingByAddress, started>>

\* The backoff sleep between two attempts elapses.
Sleep(c) ==
    LET g == gate[c] IN
    /\ g.pc = "sleep"
    /\ gate' = [gate EXCEPT ![c] =
          [g EXCEPT !.pc = "attempt",
                    !.delays = @ \o <<BackoffDelay(g.options.retry, g.attempt)>>,
                    !.events = @ \o <<"sleep">>]]
    /\ UNCHANGED <<pendingByAddress, started>>

\* Mutant: a settlement that did not confirm is tried again.
Settled_RetriesUnconfirmed(c) ==
    LET g == gate[c]
        settlement == g.settlementResult.settlement
    IN  /\ g.pc = "settled"
        /\ gate' = [gate EXCEPT ![c] =
              IF /\ settlement.defined /\ ~settlement.success
                 /\ Count(g.events, "settle") < g.options.retry.maxAttempts
              THEN [g EXCEPT !.pc = "attempt"]
              ELSE IF g.impl = "plugin" /\ ~g.settlementResult.ok
              THEN Return(g, g.settlementResult.response)
              ELSE [g EXCEPT !.pc = "onSettle"]]
        /\ UNCHANGED <<pendingByAddress, started>>

\* Mutant: a settlement that did not confirm is answered with the challenge.
Settled_RejectsUnconfirmed(c) ==
    LET g == gate[c]
        settlement == g.settlementResult.settlement
    IN  /\ g.pc = "settled"
        /\ gate' = [gate EXCEPT ![c] =
              IF settlement.defined /\ ~settlement.success
              THEN Return(g, buildPaymentRequiredResponse(
                        "Settlement failed", g.paymentRequirements,
                        Undefined, Undefined, g.impl))
              ELSE IF g.impl = "plugin" /\ ~g.settlementResult.ok
              THEN Return(g, g.settlementResult.response)
              ELSE [g EXCEPT !.pc = "onSettle"]]
        /\ UNCHANGED <<pendingByAddress, started>>

\* Mutant: the gate forgets to look at settlementResult.ok.
Settled_IgnoresFailure(c) ==
    LET g == gate[c] IN
    /\ g.pc = "settled"
    /\ gate' = [gate EXCEPT ![c] = [g EXCEPT !.pc = "onSettle"]]
    /\ UNCHANGED <<pendingByAddress, started>>

\* Mutant: the evidence header is attached for every settlement the
\* facilitator returned, confirmed or not.
Settled_AttachesUnconfirmed(c) ==
    LET g == gate[c]
        settlement == g.settlementResult.settlement
        withEvidence ==
            IF settlement.defined
            THEN [g.upstreamResponse.headers EXCEPT
                     !.xPaymentResponse = PaymentResponseHeaderValue(settlement)]
            ELSE g.upstreamResponse.headers
    IN  /\ g.pc = "settled"
        /\ gate' = [gate EXCEPT ![c] =
              IF g.impl = "pkg" THEN [g EXCEPT !.pc = "onSettle"]
              ELSE IF ~g.settlementResult.ok
              THEN Return(g, g.settlementResult.response)
              ELSE [g EXCEPT !.pc = "onSettle",
                             !.upstreamResponse.headers =
                                 ensurePaymentResponseIsExposed(withEvidence)]]
        /\ UNCHANGED <<pendingByAddress, started>>

\* The gate has the settlement result.  Plugin variant: an error result is
\* returned at once; otherwise the evidence header is attached on success
\* and the expose list is brought up to date.
Settled(c) ==
    LET g == gate[c]
        settlement == g.settlementResult.settlement
        withEvidence ==
            IF settlement.defined /\ settlement.success
            THEN [g.upstreamResponse.headers EXCEPT
                     !.xPaymentResponse = PaymentResponseHeaderValue(settlement)]
            ELSE g.upstreamResponse.headers
    IN  /\ g.pc = "settled"
        /\ gate' = [gate EXCEPT ![c] =
              IF g.impl = "pkg" THEN [g EXCEPT !.pc = "onSettle"]
              ELSE IF ~g.settlementResult.ok
              THEN Return(g, g.settlementResult.response)
              ELSE [g EXCEPT !.pc = "onSettle",
                             !.upstreamResponse.headers =
                                 ensurePaymentResponseIsExposed(withEvidence)]]
        /\ UNCHANGED <<pendingByAddress, started>>

\* Mutant: the cost is recorded under an address other than the settled payer.
onSettle_WrongKey(ledger, settlementResult, nextCostUSD) ==
    LET payer == settlementResult.settlement.payer IN
    IF /\ settlementResult.ok
       /\ settlementResult.settlement.defined
       /\ payer # Undefined
       /\ nextCostUSD # <<>>
    THEN setOwedUSD(ledger, CHOOSE a \in Addresses : a # payer, nextCostUSD[1])
    ELSE ledger

\* The proxy's onSettle: record the cost of this call for the payer the
\* settlement reports.
onSettle(ledger, settlementResult, nextCostUSD) ==
    LET payer == settlementResult.settlement.payer IN
    IF /\ settlementResult.ok
       /\ settlementResult.settlement.defined
       /\ payer # Undefined
       /\ nextCostUSD # <<>>
    THEN setOwedUSD(ledger, payer, nextCostUSD[1])
    ELSE ledger

\* The callback runs and the gate returns.  The plugin variant swallows a
\* throwing callback and returns the upstream response; the package variant
\* calls it unguarded and returns the settlement result's response.
OnSettle(c) ==
    LET g == gate[c]
        called == g.options.onSettle # "none"
        g1 == [g EXCEPT !.events = IF called THEN @ \o <<"onSettle">> ELSE @]
        ledger == IF g.options.onSettle = "ledger"
                  THEN onSettle(pendingByAddress, g.settlementResult, g.nextCostUSD)
                  ELSE pendingByAddress
        wrote == /\ g.options.onSettle = "ledger"
                 /\ g.settlementResult.ok
                 /\ g.settlementResult.settlement.defined
                 /\ g.settlementResult.settlement.payer # Undefined
                 /\ g.nextCostUSD # <<>>
        g2 == [g1 EXCEPT !.ledgerWrite =
                  IF wrote
                  THEN [defined |-> TRUE, payer |-> g.settlementResult.settlement.payer,
                        usd |-> g.nextCostUSD[1]]
                  ELSE NoSet]
    IN  /\ g.pc = "onSettle"
        /\ pendingByAddress' = ledger
        /\ gate' = [gate EXCEPT ![c] =
              IF g.impl = "plugin" THEN Return(g2, g.upstreamResponse)
              ELSE IF g.options.onSettle = "throws" THEN Reject(g2)
              ELSE Return(g2, g.settlementResult.response)]
        /\ UNCHANGED started

\* The caller has taken the result; the slot is free for the next call.
Respond(c) ==
    /\ gate[c].pc = "done"
    /\ gate' = [gate EXCEPT ![c] = [IdleGate EXCEPT !.prevWrite = gate[c].ledgerWrite]]
    /\ UNCHANGED <<pendingByAddress, started>>

GateStep(c) ==
    \/ Begin(c) /\ UNCHANGED tool
    \/ ResolveConfig(c) /\ UNCHANGED tool
    \/ EnsurePayment(c) /\ UNCHANGED tool
    \/ Verify(c) /\ UNCHANGED tool
    \/ Handler(c) /\ UNCHANGED tool
    \/ SettlePayment(c) /\ UNCHANGED tool
    \/ SettleAttempt(c) /\ UNCHANGED tool
    \/ Sleep(c) /\ UNCHANGED tool
    \/ Settled(c) /\ UNCHANGED tool
    \/ OnSettle(c) /\ UNCHANGED tool
    \/ Respond(c) /\ UNCHANGED tool

Next == \E c \in SeqCalls : GateStep(c)

Spec == Init /\ [][Next]_vars

\* ------------------------------------------------------------------------
\* The proxy under concurrent requests
\* ------------------------------------------------------------------------
\* forwardOpenRouter's call of the gate: the builder, the ledger's onSettle,
\* settleOnError left unset.  The request claims one of the addresses.
BeginProxy(c) ==
    /\ gate[c].pc = "idle"
    /\ started < MaxCalls
    /\ \E claimed \in Addresses :
          gate' = [gate EXCEPT ![c] =
              [IdleGate EXCEPT
                  !.pc = "start",
                  !.header = Payload(X402_VERSION, "base-sepolia", claimed),
                  !.config = [builder |-> TRUE, price |-> 0, priceOk |-> TRUE,
                              network |-> "base-sepolia", payTo |-> "0xpayee"],
                  !.options = [onSettle |-> "ledger", settleOnError |-> FALSE,
                               retry |-> DefaultRetry],
                  !.prevWrite = gate[c].prevWrite]]
    /\ started' = started + 1
    /\ UNCHANGED pendingByAddress

\* The environment the concurrent runs are explored in: the facilitator,
\* when it fails, is down with a 503; it reports the address the request
\* claimed; the upstream sends no payment or CORS headers of its own.
ProxyEnvironment(g) ==
    /\ \A i \in 1..Len(g.thrown) : g.thrown[i] = Thrown(TRUE, "Failed to settle payment: 503")
    /\ g.operationResponse.headers = NoHeaders
    /\ g.settlementResult.settlement.defined =>
          g.settlementResult.settlement.payer = g.rawPayment.claimed

\* Every call stays within the environment above.
ProxyEnvironmentNext ==
    /\ \A c \in CallIds : ProxyEnvironment(gate'[c])
    /\ UNCHANGED tool

ProxyStep(c) ==
    \/ BeginProxy(c) /\ ProxyEnvironmentNext
    \/ ResolveConfig(c) /\ ProxyEnvironmentNext
    \/ EnsurePayment(c) /\ ProxyEnvironmentNext
    \/ Verify(c) /\ ProxyEnvironmentNext
    \/ Handler(c) /\ ProxyEnvironmentNext
    \/ SettlePayment(c) /\ ProxyEnvironmentNext
    \/ SettleAttempt(c) /\ ProxyEnvironmentNext
    \/ Sleep(c) /\ ProxyEnvironmentNext
    \/ Settled(c) /\ ProxyEnvironmentNext
    \/ OnSettle(c) /\ ProxyEnvironmentNext
    \/ Respond(c) /\ ProxyEnvironmentNext

NextConcurrent == \E c \in CallIds : ProxyStep(c)

SpecConcurrent == Init /\ [][NextConcurrent]_vars

\* ------------------------------------------------------------------------
\* The gate under every retry policy
\* ------------------------------------------------------------------------
\* A call with a valid payment and a fixed price; the package variant is
\* given retry options, the plugin variant always runs the defaults.
BeginRetry(c) ==
    /\ gate[c].pc = "idle"
    /\ started < MaxCalls
    /\ \E impl \in {"plugin", "pkg"}, retry \in RetryOptionsSet \cup {DefaultRetry} :
          /\ impl = "plugin" => retry = DefaultRetry
          /\ gate' = [gate EXCEPT ![c] =
                [IdleGate EXCEPT
                    !.pc = IF impl = "plugin" THEN "start" ELSE "ensure",
                    !.impl = impl,
                    !.header = Payload(X402_VERSION, "base-sepolia", "0xaa"),
                    !.options = [onSettle |-> "none", settleOnError |-> FALSE,
                                 retry |-> retry],
                    !.concreteConfig =
                        IF impl = "plugin" THEN NoConfig
                        ELSE [price |-> 1, priceOk |-> TRUE,
                              network |-> "base-sepolia", payTo |-> "0xpayee"],
                    !.prevWrite = gate[c].prevWrite]]
    /\ started' = started + 1
    /\ UNCHANGED pendingByAddress

\* The environment these runs are explored in: the facilitator fails with
\* a 503 or a 400, and the operation's response has no headers of its own.
RetryEnvironment(g) ==
    /\ \A i \in 1..Len(g.thrown) :
          g.thrown[i] \in {Thrown(TRUE, "Failed to settle payment: 503"),
                           Thrown(TRUE, "Failed to settle payment: 400")}
    /\ g.operationResponse.headers = NoHeaders
    /\ g.settlementResult.settlement.defined =>
          g.settlementResult.settlement.payer = "0xaa"

RetryEnvironmentNext ==
    /\ \A c \in CallIds : RetryEnvironment(gate'[c])
    /\ UNCHANGED tool

RetryStep(c) ==
    \/ BeginRetry(c) /\ RetryEnvironmentNext
    \/ ResolveConfig(c) /\ RetryEnvironmentNext
    \/ EnsurePayment(c) /\ RetryEnvironmentNext
    \/ Verify(c) /\ RetryEnvironmentNext
    \/ Handler(c) /\ RetryEnvironmentNext
    \/ SettlePayment(c) /\ RetryEnvironmentNext
    \/ SettleAttempt(c) /\ RetryEnvironmentNext
    \/ Sleep(c) /\ RetryEnvironmentNext
    \/ Settled(c) /\ RetryEnvironmentNext
    \/ OnSettle(c) /\ RetryEnvironmentNext
    \/ Respond(c) /\ RetryEnvironmentNext

NextRetry == \E c \in SeqCalls : RetryStep(c)

SpecRetry == Init /\ [][NextRetry]_vars

\* ------------------------------------------------------------------------
\* The paid MCP tool: cbWithPayment, step by step
\* ------------------------------------------------------------------------
ToolReturn(t, result) ==
    [t EXCEPT !.pc = "done", !.outcome = "returned", !.result = result,
              !.events = @ \o <<"return">>]

ToolReject(t) ==
    [t EXCEPT !.pc = "done", !.outcome = "threw", !.events = @ \o <<"throw">>]

\* A client calls the tool, with or without _meta["x402/payment"].
McpBegin ==
    /\ tool.pc = "idle"
    /\ \E price \in {0, 1}, priceOk \in BOOLEAN, network \in SupportedEVMNetworks,
          payment \in Headers :
          tool' = [IdleTool EXCEPT !.pc = "check", !.price = price, !.priceOk = priceOk,
                                   !.network = network, !.payment = payment]

\* cbWithPayment up to its await of verify: the price, the requirement,
\* the presence of the payment and its decoding.
McpCheck ==
    LET atomic == processPriceToAtomicAmount(tool.price, tool.priceOk, tool.network)
        paymentRequirements ==
            [scheme |-> "exact", network |-> tool.network,
             maxAmountRequired |-> atomic.maxAmountRequired, payTo |-> "0xpayee"]
        decoded == decodePayment(tool.payment)
        t1 == [tool EXCEPT !.paymentRequirements = paymentRequirements,
                           !.events = @ \o <<"requirement">>]
        t2 == [t1 EXCEPT !.events = @ \o <<"decode">>]
    IN  /\ tool.pc = "check"
        /\ tool' =
              IF ~atomic.ok THEN ToolReject(tool)
              ELSE IF tool.payment.kind = "absent"
              THEN ToolReturn(t1, makeErrorResponse("_meta.x402/payment is required",
                                                    <<paymentRequirements>>, Undefined))
              ELSE IF ~decoded.ok
              THEN ToolReturn(t2, makeErrorResponse("Invalid payment",
                                                    <<paymentRequirements>>, Undefined))
              ELSE [t2 EXCEPT !.pc = "verify",
                              !.decodedPayment =
                                  [decoded.payment EXCEPT !.x402Version = X402_VERSION]]

\* The facilitator answers (or fails) the verify request.
McpVerify ==
    LET t1 == [tool EXCEPT !.events = @ \o <<"verify">>] IN
    /\ tool.pc = "verify"
    /\ \/ \E e \in VerifyErrors :
            tool' = ToolReturn(t1, makeErrorResponse("Verification failed", <<>>, Undefined))
       \/ \E v \in VerifyResponses :
            LET t2 == [t1 EXCEPT !.verification =
                          [defined |-> TRUE, isValid |-> v.isValid,
                           invalidReason |-> v.invalidReason, payer |-> v.payer]]
            IN  tool' =
                    IF ~v.isValid
                    THEN ToolReturn(t2, makeErrorResponse(
                             v.invalidReason, <<tool.paymentRequirements>>, v.payer))
                    ELSE [t2 EXCEPT !.pc = "callback", !.events = @ \o <<"verified">>]

\* Mutant: settlement is attempted whatever the callback's outcome.
McpCallback_SettlesErrors ==
    LET t1 == [tool EXCEPT !.events = @ \o <<"callback">>] IN
    /\ tool.pc = "callback"
    /\ \E o \in CallbackOutcomes :
          LET result == IF o.threw THEN ToolExecutionFailed ELSE o.result IN
          tool' = [t1 EXCEPT !.pc = "settle",
                             !.cbResult = result,
                             !.executionError = o.threw \/ o.result.isError,
                             !.events = @ \o <<IF o.threw THEN "callbackThrew"
                                                ELSE "callbackReturned">>]

\* The tool callback runs; its exception becomes an error result.  An
\* error result is returned without settling.
McpCallback ==
    LET t1 == [tool EXCEPT !.events = @ \o <<"callback">>] IN
    /\ tool.pc = "callback"
    /\ \E o \in CallbackOutcomes :
          LET result == IF o.threw THEN ToolExecutionFailed ELSE o.result
              executionError == o.threw \/ o.result.isError
              t2 == [t1 EXCEPT !.cbResult = result,
                               !.executionError = executionError,
                               !.events = @ \o <<IF o.threw THEN "callbackThrew"
                                                  ELSE "callbackReturned">>]
          IN  tool' = IF executionError THEN ToolReturn(t2, result)
                      ELSE [t2 EXCEPT !.pc = "settle"]

\* Mutant: the payment response is attached whatever settle reports.
McpSettle_AlwaysAttaches ==
    LET t1 == [tool EXCEPT !.events = @ \o <<"settle">>] IN
    /\ tool.pc = "settle"
    /\ \/ \E r \in SettleResponses :
            tool' = ToolReturn(
                [t1 EXCEPT !.settlement = r, !.events = @ \o <<"settleReturned">>],
                [tool.cbResult EXCEPT !.meta =
                    [defined |-> TRUE, success |-> TRUE,
                     transaction |-> r.transaction, network |-> r.network,
                     payer |-> r.payer]])
       \/ \E e \in SettleErrors :
            tool' = ToolReturn([t1 EXCEPT !.events = @ \o <<"settleThrew">>],
                               makeErrorResponse("Settlement failed",
                                                 <<tool.paymentRequirements>>, Undefined))

\* Mutant: a failed settle is logged and the tool's result returned all the same.
McpSettle_KeepsResult ==
    LET t1 == [tool EXCEPT !.events = @ \o <<"settle">>] IN
    /\ tool.pc = "settle"
    /\ \/ \E r \in SettleResponses :
            LET t2 == [t1 EXCEPT !.settlement = r, !.events = @ \o <<"settleReturned">>]
                result ==
                    IF r.success
                    THEN [tool.cbResult EXCEPT !.meta =
                             [defined |-> TRUE, success |-> TRUE,
                              transaction |-> r.transaction, network |-> r.network,
                              payer |-> r.payer]]
                    ELSE tool.cbResult
            IN  tool' = ToolReturn(t2, result)
       \/ \E e \in SettleErrors :
            tool' = ToolReturn([t1 EXCEPT !.events = @ \o <<"settleThrew">>],
                               tool.cbResult)

\* The single settle call: on success the payment response goes into the
\* result's _meta; an exception replaces the result by an error response.
McpSettle ==
    LET t1 == [tool EXCEPT !.events = @ \o <<"settle">>] IN
    /\ tool.pc = "settle"
    /\ \/ \E r \in SettleResponses :
            LET t2 == [t1 EXCEPT !.settlement = r, !.events = @ \o <<"settleReturned">>]
                result ==
                    IF r.success
                    THEN [tool.cbResult EXCEPT !.meta =
                             [defined |-> TRUE, success |-> TRUE,
                              transaction |-> r.transaction, network |-> r.network,
                              payer |-> r.payer]]
                    ELSE tool.cbResult
            IN  tool' = ToolReturn(t2, result)
       \/ \E e \in SettleErrors :
            tool' = ToolReturn([t1 EXCEPT !.events = @ \o <<"settleThrew">>],
                               makeErrorResponse("Settlement failed",
                                                 <<tool.paymentRequirements>>, Undefined))

\* The client has taken the result.
McpRespond ==
    /\ tool.pc = "done"
    /\ tool' = IdleTool

NextMcp ==
    \/ McpBegin /\ UNCHANGED <<gate, pendingByAddress, started>>
    \/ McpCheck /\ UNCHANGED <<gate, pendingByAddress, started>>
    \/ McpVerify /\ UNCHANGED <<gate, pendingByAddress, started>>
    \/ McpCallback /\ UNCHANGED <<gate, pendingByAddress, started>>
    \/ McpSettle /\ UNCHANGED <<gate, pendingByAddress, started>>
    \/ McpRespond /\ UNCHANGED <<gate, pendingByAddress, started>>

SpecMcp == Init /\ [][NextMcp]_vars


\* ------------------------------------------------------------------------
\* Properties
\* ------------------------------------------------------------------------
Done(g) == g.pc = "done"
Returned(g) == g.pc = "done" /\ g.outcome = "returned"

\* The response the caller got is the protected operation's response.
ReturnedOperationResponse(g) == Returned(g) /\ g.response.body.kind = "upstream"

\* The response the caller got is settlePayment's 402 / 502 error response.
ReturnedSettlementError(g) ==
    /\ Returned(g)
    /\ g.response.body.kind = "x402"
    /\ g.response.status \in {402, 502}
    /\ Count(g.events, "settleThrew") > 0

SettleCalls(g) == Count(g.events, "settle")

Rank(e) ==
    CASE e = "builder" -> 0
      [] e = "requirement" -> 1
      [] e = "decode" -> 2
      [] e \in {"verify", "verified"} -> 3
      [] e \in {"handler", "handlerReturned"} -> 4
      [] e \in {"settle", "settleThrew", "settleReturned", "sleep"} -> 5
      [] e = "onSettle" -> 6
      [] e \in {"return", "throw"} -> 7

Before(events, a, j) == \E i \in 1..(j - 1) : events[i] = a

\* C2: in one gate call the events run in the order requirement, decode,
\* verify, protected operation, settle attempts and sleeps, return; each
\* settle attempt starts after the operation has returned; and once the
\* response is returned no settle attempt or sleep of the call is pending
\* or follows.
C2_StepOrder ==
    \A c \in CallIds :
        LET g == gate[c]
            ev == g.events
        IN  /\ \A i, j \in 1..Len(ev) : i < j => Rank(ev[i]) <= Rank(ev[j])
            /\ \A e \in {"requirement", "decode", "verify", "handler", "return"} :
                  Count(ev, e) <= 1
            /\ \A j \in 1..Len(ev) :
                  /\ ev[j] = "decode" => Before(ev, "requirement", j)
                  /\ ev[j] = "verify" => Before(ev, "decode", j)
                  /\ ev[j] = "handler" => Before(ev, "verified", j)
                  /\ ev[j] = "settle" => Before(ev, "handlerReturned", j)
                  /\ ev[j] = "sleep" => (j > 1 /\ ev[j - 1] = "settleThrew")
                  /\ ev[j] = "return" => j = Len(ev)
            /\ Count(ev, "return") > 0 => (g.pc = "done" /\ g.outcome = "returned")

C2_Witness ==
    \E c \in CallIds :
        LET g == gate[c] IN
        /\ ReturnedOperationResponse(g)
        /\ Count(g.events, "sleep") = 2
        /\ Count(g.events, "settleReturned") = 1

\* C3: once verify has answered isValid = true the protected operation is
\* invoked, exactly once in the call: settlement retries and the later steps
\* never invoke it again, and it is never invoked without that answer.
C3_OperationOnce ==
    \A c \in CallIds :
        LET g == gate[c] IN
        /\ Count(g.events, "handler") <= 1
        /\ Count(g.events, "handler") = 1 => Count(g.events, "verified") = 1
        /\ (Count(g.events, "verified") = 1 /\ g.pc # "handler") =>
              Count(g.events, "handler") = 1

C3_Witness ==
    \E c \in CallIds :
        LET g == gate[c] IN
        /\ Done(g)
        /\ SettleCalls(g) = 3
        /\ Count(g.events, "handler") = 1

NoneInvoked(g) ==
    /\ Count(g.events, "verify") = 0
    /\ Count(g.events, "handler") = 0
    /\ SettleCalls(g) = 0

\* The config compiles to a requirement: its price converts and its network
\* is supported.
RequirementBuilds(g) ==
    g.concreteConfig.priceOk /\ g.concreteConfig.network \in SupportedEVMNetworks

\* C4: a call without X-PAYMENT header whose requirement builds is answered
\* 402 with accepts holding exactly one requirement, made of the configured
\* price, network and payee; verify, the operation and settle are not invoked.
C4_MissingHeaderChallenge ==
    \A c \in CallIds :
        LET g == gate[c] IN
        (Done(g) /\ g.header.kind = "absent" /\ RequirementBuilds(g)) =>
            /\ Returned(g)
            /\ g.response.status = 402
            /\ Len(g.response.body.accepts) = 1
            /\ g.response.body.accepts[1].scheme = "exact"
            /\ g.response.body.accepts[1].maxAmountRequired =
                  (IF g.config.builder THEN 0 ELSE g.config.price) * 10000
            /\ g.response.body.accepts[1].network = g.config.network
            /\ g.response.body.accepts[1].payTo = g.config.payTo
            /\ NoneInvoked(g)

C4_Witness ==
    \E c \in CallIds :
        LET g == gate[c] IN
        /\ Returned(g)
        /\ g.header.kind = "absent"
        /\ g.config.builder
        /\ g.response.status = 402
        /\ Len(g.response.body.accepts) = 1

\* C5 as claimed: every call with an undecodable header is answered 402.
C5_Original ==
    \A c \in CallIds :
        LET g == gate[c] IN
        (Done(g) /\ g.header.kind = "malformed") =>
            /\ Returned(g)
            /\ g.response.status = 402
            /\ NoneInvoked(g)

\* C5: a call with an undecodable X-PAYMENT header invokes none of verify,
\* the operation and settle; it is answered 402 when its requirement
\* builds (and 500, the configuration error, when it does not).
C5_MalformedHeaderChallenge ==
    \A c \in CallIds :
        LET g == gate[c] IN
        (Done(g) /\ g.header.kind = "malformed") =>
            /\ Returned(g)
            /\ NoneInvoked(g)
            /\ RequirementBuilds(g) => g.response.status = 402
            /\ ~RequirementBuilds(g) => g.response.status = 500

C5_Witness ==
    \E c \in CallIds :
        LET g == gate[c] IN
        /\ Returned(g)
        /\ g.header.kind = "malformed"
        /\ g.response.status = 402
        /\ Count(g.events, "decode") = 1


\* What decodePaymentResponseHeader must yield for a settlement.
Evidence(settlement) ==
    [defined |-> TRUE, success |-> TRUE, transaction |-> settlement.transaction,
     network |-> settlement.network, payer |-> settlement.payer]

\* The caller got the operation's response (status and body as the handler
\* returned them) with the evidence of `settlement` attached.
ReturnedWithEvidence(g, settlement) ==
    /\ ReturnedOperationResponse(g)
    /\ g.response.status = g.operationResponse.status
    /\ g.response.body = g.operationResponse.body
    /\ decodePaymentResponseHeader(g.response.headers) = Evidence(settlement)

\* A call can end without a response only through an exception the variant
\* does not catch; after the operation has returned that is the package
\* variant's onSettle callback.
EscapedThroughOnSettle(g) ==
    /\ g.pc = "done"
    /\ g.outcome = "threw"
    /\ g.impl = "pkg"
    /\ g.options.onSettle = "throws"

\* C6: with the default retry settings, when settle throws on the first two
\* attempts and returns success = true on the third, settle is called exactly
\* 3 times, the sleeps are 150 ms then 300 ms, and the gate returns the
\* operation's response with the settlement evidence attached.
C6_RetryTwiceThenSucceed ==
    \A c \in CallIds :
        LET g == gate[c] IN
        (/\ Done(g)
         /\ g.options.retry = DefaultRetry
         /\ Len(g.thrown) = 2
         /\ g.settlementResult.settlement.defined
         /\ g.settlementResult.settlement.success) =>
            /\ SettleCalls(g) = 3
            /\ g.delays = <<150, 300>>
            /\ \/ ReturnedWithEvidence(g, g.settlementResult.settlement)
               \/ EscapedThroughOnSettle(g)

C6_Witness ==
    \E c \in CallIds :
        LET g == gate[c] IN
        /\ Returned(g)
        /\ g.impl = "plugin"
        /\ Len(g.thrown) = 2
        /\ g.settlementResult.settlement.success
        /\ g.delays = <<150, 300>>

Error503 == Thrown(TRUE, "Failed to settle payment: 503")

\* C7: when every settle attempt of a call throws an Error whose message
\* embeds status 503, the gate, its retries exhausted, returns 502 and not 402.
C7_ServiceDown502 ==
    \A c \in CallIds :
        LET g == gate[c] IN
        (/\ Done(g)
         /\ SettleCalls(g) > 0
         /\ Len(g.thrown) = SettleCalls(g)
         /\ \A i \in 1..Len(g.thrown) : g.thrown[i] = Error503) =>
            /\ SettleCalls(g) = g.options.retry.maxAttempts
            /\ \/ Returned(g) /\ g.response.status = 502 /\ g.response.body.kind = "x402"
               \/ EscapedThroughOnSettle(g)

C7_Witness ==
    \E c \in CallIds :
        LET g == gate[c] IN
        /\ Returned(g)
        /\ g.thrown = <<Error503, Error503, Error503>>
        /\ g.response.status = 502

\* C8 as claimed: when the operation returns a status >= 400 and
\* settleOnError is not set, settle is never called, the settlement outcome
\* is ok, and the response the caller receives is the operation's, with
\* status, body and headers unchanged.
C8_SkipReturnsUnchanged ==
    \A c \in CallIds :
        LET g == gate[c] IN
        (/\ Done(g)
         /\ Count(g.events, "handlerReturned") = 1
         /\ g.operationResponse.status >= 400
         /\ ~g.options.settleOnError) =>
            /\ SettleCalls(g) = 0
            /\ g.settlementResult.ok
            /\ Returned(g) => g.response = g.operationResponse

C11_LedgerChangesOnlyOnSuccess ==
    [][\A a \in Addresses :
          pendingByAddress'[a] # pendingByAddress[a] =>
              \E c \in CallIds :
                  /\ gate[c].pc = "onSettle"
                  /\ gate'[c].pc = "done"
                  /\ gate[c].settlementResult.settlement.defined
                  /\ gate[c].settlementResult.settlement.success
                  /\ gate[c].settlementResult.settlement.payer = a]_vars

\* C12: two concurrent calls of one payer are serialized on the ledger: it
\* never happens that both are priced from the same ledger state (the second
\* is priced while the first is still between its read and its write) and
\* both then record their cost for that payer, one over the other.
C12_NoLostUpdate ==
    \A c, d \in CallIds :
        LET g == gate[c]
            h == gate[d]
        IN  ~(/\ c # d
              /\ g.pc = "done" /\ h.pc = "done"
              /\ d \in g.pricedDuring
              /\ g.rawPayment.claimed = h.rawPayment.claimed
              /\ g.concreteConfig.price = h.concreteConfig.price
              /\ g.ledgerWrite.defined /\ h.ledgerWrite.defined
              /\ g.ledgerWrite.payer = g.rawPayment.claimed
              /\ h.ledgerWrite.payer = g.rawPayment.claimed)

\* C13: when the price does not convert or the network is not supported,
\* the gate returns 500, whether or not an X-PAYMENT header is present, and
\* calls neither verify, the operation nor settle.
C13_ConfigError500 ==
    \A c \in CallIds :
        LET g == gate[c] IN
        (Done(g) /\ ~RequirementBuilds(g)) =>
            /\ Returned(g)
            /\ g.response.status = 500
            /\ g.response.body.accepts = <<>>
            /\ NoneInvoked(g)

C13_Witness ==
    \E c \in CallIds :
        LET g == gate[c] IN
        /\ Returned(g)
        /\ g.header.kind = "payload"
        /\ g.concreteConfig.priceOk
        /\ g.concreteConfig.network \notin SupportedEVMNetworks
        /\ g.response.status = 500

\* The facilitator answered the verify request with isValid = false.
VerificationRejected(g) ==
    Done(g) /\ g.verification.defined /\ ~g.verification.isValid

\* What a rejected verification leaves: a 402 with the requirements and the
\* payer the facilitator reported, the operation and settle never invoked.
RejectedChallenge(g) ==
    /\ Returned(g)
    /\ g.response.status = 402
    /\ g.response.body.accepts = g.paymentRequirements
    /\ Len(g.response.body.accepts) = 1
    /\ g.response.body.payer = g.verification.payer
    /\ Count(g.events, "handler") = 0
    /\ SettleCalls(g) = 0

\* C14 as claimed: when verify returns isValid = false the gate returns a
\* 402 whose body carries the facilitator's invalidReason as error, the
\* accepts array and the payer the facilitator reported; neither the
\* operation nor settle is invoked.
C14_Original ==
    \A c \in CallIds :
        LET g == gate[c] IN
        VerificationRejected(g) =>
            /\ RejectedChallenge(g)
            /\ g.verification.invalidReason # Undefined =>
                  g.response.body.error = g.verification.invalidReason

\* C14: when verify returns isValid = false the gate returns a 402 with the
\* accepts array and the payer the facilitator reported, and invokes neither
\* the operation nor settle; its error is the configured verificationFailed
\* text when there is one, else the facilitator's invalidReason, else
\* "Payment verification failed".
C14_VerificationRejected ==
    \A c \in CallIds :
        LET g == gate[c] IN
        VerificationRejected(g) =>
            /\ RejectedChallenge(g)
            /\ g.response.body.error =
                  IF g.errorMessages.verificationFailed # Undefined
                  THEN g.errorMessages.verificationFailed
                  ELSE IF g.verification.invalidReason # Undefined
                  THEN g.verification.invalidReason
                  ELSE "Payment verification failed"

C14_Witness ==
    \E c \in CallIds :
        LET g == gate[c] IN
        /\ VerificationRejected(g)
        /\ g.verification.invalidReason = "insufficient_funds"
        /\ g.verification.payer = "0xbb"
        /\ g.response.body.error = "insufficient_funds"
        /\ g.response.body.payer = "0xbb"

\* The protected operation was invoked and threw.
HandlerThrew(g) ==
    Done(g) /\ Count(g.events, "handler") = 1 /\ Count(g.events, "handlerReturned") = 0

\* C15: when the protected operation throws, the gate does not throw: it
\* returns a failure response (status >= 400) to the caller and skips
\* settlement.
C15_HandlerThrowIsCaught ==
    \A c \in CallIds :
        LET g == gate[c] IN
        HandlerThrew(g) =>
            /\ Returned(g)
            /\ g.response.status >= 400
            /\ SettleCalls(g) = 0

\* C16 as claimed: when the onSettle callback throws, the gate still returns
\* a response, the one it returns when onSettle completes normally: the
\* settlement result's response.
C16_OnSettleThrowSwallowed ==
    \A c \in CallIds :
        LET g == gate[c] IN
        (Done(g) /\ g.options.onSettle = "throws" /\ Count(g.events, "onSettle") = 1) =>
            /\ Returned(g)
            /\ g.response.status = g.settlementResult.response.status
            /\ g.response.body = g.settlementResult.response.body

\* C17: with options.settleOnError = true, when the operation returns a
\* status >= 400, settle is attempted instead of being skipped.
C17_SettleOnErrorSettles ==
    \A c \in CallIds :
        LET g == gate[c] IN
        (/\ Done(g)
         /\ g.options.settleOnError
         /\ Count(g.events, "handlerReturned") = 1
         /\ g.operationResponse.status >= 400) =>
            SettleCalls(g) >= 1

\* C18: when a settle attempt returns normally with success = false, the
\* settlement outcome is ok and the caller receives the operation's response
\* with its original status and body, not a 402 or 502 settlement error.
C18_UnconfirmedSettlementIsOk ==
    \A c \in CallIds :
        LET g == gate[c]
            settlement == g.settlementResult.settlement
        IN  (Done(g) /\ settlement.defined /\ ~settlement.success) =>
                /\ g.settlementResult.ok
                /\ \/ /\ ReturnedOperationResponse(g)
                      /\ g.response.status = g.operationResponse.status
                      /\ g.response.status \notin {402, 502}
                      /\ g.response.body = g.operationResponse.body
                   \/ EscapedThroughOnSettle(g)

C18_Witness ==
    \E c \in CallIds :
        LET g == gate[c] IN
        /\ Returned(g)
        /\ g.settlementResult.settlement.defined
        /\ ~g.settlementResult.settlement.success
        /\ Len(g.thrown) = 1
        /\ g.response.status = 200

\* ------------------------------------------------------------------------
\* Properties of the paid MCP tool
\* ------------------------------------------------------------------------
ToolDone == tool.pc = "done"
ToolReturned == tool.pc = "done" /\ tool.outcome = "returned"

\* Neither the facilitator nor the tool callback was invoked.
ToolNoneInvoked ==
    /\ Count(tool.events, "verify") = 0
    /\ Count(tool.events, "callback") = 0
    /\ Count(tool.events, "settle") = 0

\* The isError result that carries the tool's payment requirement.
ToolChallenge ==
    /\ ToolReturned
    /\ tool.result.isError
    /\ tool.result.kind = "x402"
    /\ Len(tool.result.accepts) = 1
    /\ tool.result.accepts[1] =
          [scheme |-> "exact", network |-> tool.network,
           maxAmountRequired |-> tool.price * 10000, payTo |-> "0xpayee"]

\* C19 as claimed: when the client supplies no _meta["x402/payment"], the
\* wrapper returns an isError result whose content has an accepts array with
\* the tool's payment requirement, and invokes neither the tool callback nor
\* verify or settle.
C19_Original ==
    (ToolDone /\ tool.payment.kind = "absent") => (ToolChallenge /\ ToolNoneInvoked)

\* C19: when the client supplies no _meta["x402/payment"], the wrapper
\* invokes neither the tool callback nor verify or settle; when the tool's
\* price converts it returns an isError result whose accepts array holds the
\* tool's payment requirement, and when the price does not convert it throws.
C19_MissingPaymentMeta ==
    (ToolDone /\ tool.payment.kind = "absent") =>
        /\ ToolNoneInvoked
        /\ tool.priceOk => ToolChallenge
        /\ ~tool.priceOk => tool.outcome = "threw"

C19_Witness ==
    /\ ToolReturned
    /\ tool.payment.kind = "absent"
    /\ tool.result.isError
    /\ Len(tool.result.accepts) = 1
    /\ tool.result.accepts[1].maxAmountRequired = 10000

\* Every occurrence of `later` in the call's events has `earlier` before it.
ToolAfter(later, earlier) ==
    \A i \in 1..Len(tool.events) :
        tool.events[i] = later => \E j \in 1..(i - 1) : tool.events[j] = earlier

\* The callback runs only after verify returned isValid = true, and settle
\* is called only after the callback has completed.
ToolOrder ==
    /\ ToolAfter("callback", "verified")
    /\ Count(tool.events, "callback") > 0 =>
          tool.verification.defined /\ tool.verification.isValid
    /\ ToolAfter("settle", "callbackReturned")

\* The payment response made of a settlement.
ToolEvidence(settlement) ==
    [defined |-> TRUE, success |-> TRUE, transaction |-> settlement.transaction,
     network |-> settlement.network, payer |-> settlement.payer]

\* C20 as claimed: the callback runs only after verify returned isValid =
\* true, settle is called only after the callback completed, and the
\* returned result carries _meta["x402/payment-response"] = {success: true,
\* transaction, network, payer} exactly when settle returned success = true.
C20_Original ==
    /\ ToolOrder
    /\ ToolReturned =>
          /\ tool.result.meta.defined <=>
                (tool.settlement.defined /\ tool.settlement.success)
          /\ tool.result.meta.defined => tool.result.meta = ToolEvidence(tool.settlement)

\* C20: the callback runs only after verify returned isValid = true and
\* settle only after the callback completed; when settle returned success =
\* true the result carries the payment response of that settlement, and
\* otherwise the wrapper adds none: the result has only what the callback's
\* own result had, and the wrapper's error results have none.
C20_ToolOrderAndEvidence ==
    /\ ToolOrder
    /\ ToolReturned =>
          IF tool.settlement.defined /\ tool.settlement.success
          THEN tool.result.meta = ToolEvidence(tool.settlement)
          ELSE IF tool.result.kind = "x402"
          THEN ~tool.result.meta.defined
          ELSE tool.result.meta = tool.cbResult.meta

C20_Witness ==
    /\ ToolReturned
    /\ tool.events = <<"requirement", "decode", "verify", "verified", "callback",
                       "callbackReturned", "settle", "settleReturned", "return">>
    /\ tool.settlement.success
    /\ tool.cbResult.meta = ForeignPaymentResponseMeta
    /\ tool.result.meta = ToolEvidence(tool.settlement)
    /\ tool.result.meta.payer = "0xaa"

\* C21: when the tool callback throws or returns a result with isError set,
\* settle is never called and an isError result is returned: the callback's
\* own error result unchanged, or the synthesized "Tool execution failed"
\* result when it threw; the wrapper does not throw.
C21_ToolFailureSkipsSettle ==
    (ToolDone /\ Count(tool.events, "callback") = 1 /\ tool.executionError) =>
        /\ ToolReturned
        /\ Count(tool.events, "settle") = 0
        /\ tool.result.isError
        /\ tool.result = tool.cbResult
        /\ Count(tool.events, "callbackThrew") = 1 => tool.result = ToolExecutionFailed
        /\ Count(tool.events, "callbackReturned") = 1 => tool.result \in ToolResults

C21_Witness ==
    /\ ToolReturned
    /\ Count(tool.events, "callbackThrew") = 1
    /\ tool.result = ToolExecutionFailed
    /\ Count(tool.events, "settle") = 0

\* C22: every ledger write of onSettle is keyed by the payer address that
\* the facilitator's settlement result of that call reports, never by the
\* address claimed in the header: a step changes the entry of address a only
\* if it is the onSettle of a call whose settlement reports payer a.
C22_LedgerKeyIsSettledPayer ==
    [][\A a \in Addresses :
          pendingByAddress'[a] # pendingByAddress[a] =>
              \E c \in CallIds :
                  /\ gate[c].pc = "onSettle"
                  /\ gate'[c].pc = "done"
                  /\ gate[c].options.onSettle = "ledger"
                  /\ gate[c].settlementResult.settlement.defined
                  /\ gate[c].settlementResult.settlement.payer = a]_vars

C22_Witness ==
    \E c \in CallIds :
        LET g == gate[c] IN
        /\ Done(g)
        /\ g.rawPayment.claimed = "0xaa"
        /\ g.settlementResult.settlement.payer = "0xbb"
        /\ g.ledgerWrite.defined
        /\ pendingByAddress["0xbb"] = <<0>>
        /\ pendingByAddress["0xaa"] = <<>>

\* A call's retry bookkeeping is a function of its own settle results: the
\* attempt counter counts its own failures, each sleep is the backoff of its
\* own attempt number, and its settle calls are its failures plus at most
\* one call that returned.
OwnRetryState(g) ==
    /\ g.attempt = Len(g.thrown)
    /\ g.attempt = Count(g.events, "settleThrew")
    /\ SettleCalls(g) = Len(g.thrown) + Count(g.events, "settleReturned")
    /\ Len(g.delays) <= Len(g.thrown)
    /\ \A k \in 1..Len(g.delays) : g.delays[k] = BackoffDelay(g.options.retry, k)

\* A call's response follows from its own operation response and its own
\* settle results.
OwnResponse(g) ==
    Returned(g) /\ Count(g.events, "handlerReturned") = 1 =>
        IF Len(g.thrown) = g.options.retry.maxAttempts
        THEN g.response = g.settlementResult.response /\ g.response.status \in {402, 502}
        ELSE g.response.status = g.operationResponse.status
             /\ g.response.body = g.operationResponse.body

\* C23: concurrent calls share no mutable state but the ledger: a step of
\* one call leaves the locals of every other call as they were, and each
\* call's attempt counter, sleeps, settle calls and response follow from its
\* own results alone.
C23_CallsAreIndependent ==
    /\ [](\A c \in CallIds : OwnRetryState(gate[c]) /\ OwnResponse(gate[c]))
    /\ [][\A c, d \in CallIds :
            (c # d /\ gate'[c] # gate[c]) => gate'[d] = gate[d]]_vars

C23_Witness ==
    /\ gate[1].pc = "sleep" /\ gate[1].attempt = 2 /\ gate[1].delays = <<150>>
    /\ gate[2].pc = "sleep" /\ gate[2].attempt = 1 /\ gate[2].delays = <<>>

\* settlePayment has finished and every settle attempt of the call threw.
AllAttemptsThrew(g) ==
    /\ g.pc \in {"settled", "onSettle", "done"}
    /\ Count(g.events, "settleThrew") > 0
    /\ Count(g.events, "settleReturned") = 0

\* The last settle or sleep event of the call.
LastRetryEvent(g) ==
    LET at == {i \in 1..Len(g.events) :
                  g.events[i] \in {"settle", "settleThrew", "settleReturned", "sleep"}}
    IN  g.events[CHOOSE i \in at : \A j \in at : j <= i]

\* C24: for maxAttempts N >= 1 and any initialDelay and maxDelay, when all
\* settle attempts throw, settle is called exactly N times, the sleep before
\* attempt k (2 <= k <= N) is min(initialDelay * 2^(k-2), maxDelay), and no
\* sleep follows the final failed attempt; settle is never called more than
\* N times.
C24_RetrySchedule ==
    \A c \in CallIds :
        LET g == gate[c]
            N == g.options.retry.maxAttempts
        IN  /\ SettleCalls(g) <= N
            /\ AllAttemptsThrew(g) =>
                  /\ SettleCalls(g) = N
                  /\ Len(g.delays) = N - 1
                  /\ \A k \in 2..N :
                        g.delays[k - 1] =
                            Min(g.options.retry.initialDelayMs * 2 ^ (k - 2),
                                g.options.retry.maxDelayMs)
                  /\ LastRetryEvent(g) = "settleThrew"

C24_Witness ==
    \E c \in CallIds :
        LET g == gate[c] IN
        /\ AllAttemptsThrew(g)
        /\ g.options.retry = [maxAttempts |-> 4, initialDelayMs |-> 400,
                              maxDelayMs |-> 1000]
        /\ g.delays = <<400, 800, 1000>>
        /\ SettleCalls(g) = 4

\* The messages of SettleErrors that carry a status >= 500.
ServerFailureMessages == {"Failed to settle payment: 503"}

\* C25: after the settle attempts are exhausted, when the final error does
\* not carry a status >= 500 (a lower status, or none), the gate returns the
\* payment challenge: status 402 with an error string and the accepts array.
C25_TerminalSettlementFailure402 ==
    \A c \in CallIds :
        LET g == gate[c] IN
        (/\ Done(g)
         /\ AllAttemptsThrew(g)
         /\ ~(g.lastError.isError /\ g.lastError.message \in ServerFailureMessages)) =>
            /\ ~g.settlementResult.ok
            /\ \/ /\ Returned(g)
                  /\ g.response.status = 402
                  /\ g.response.body.kind = "x402"
                  /\ g.response.body.error # Undefined
                  /\ g.response.body.accepts = <<g.selectedRequirement>>
               \/ EscapedThroughOnSettle(g)

C25_Witness ==
    \E c \in CallIds :
        LET g == gate[c] IN
        /\ Returned(g)
        /\ Len(g.thrown) = 3
        /\ g.thrown[1] = Error503
        /\ g.lastError = Thrown(FALSE, "not an Error")
        /\ g.response.status = 402
        /\ g.response.body.error = "Operation failed after retries"

Error400 == Thrown(TRUE, "Failed to settle payment: 400")

\* C26: when the settle attempts of a call fail with different errors, 502
\* versus 402 is decided by the error of the final attempt alone: 502 when
\* it is an Error carrying a status >= 500, 402 otherwise, whatever the
\* earlier attempts threw (503, 503, 400 gives 402; 400, 400, 503 gives 502).
C26_LastErrorClassifies ==
    \A c \in CallIds :
        LET g == gate[c]
            final == g.thrown[Len(g.thrown)]
        IN  (Returned(g) /\ AllAttemptsThrew(g)) =>
                /\ g.response.status =
                      IF final.isError /\ final.message \in ServerFailureMessages
                      THEN 502 ELSE 402
                /\ g.thrown = <<Error503, Error503, Error400>> => g.response.status = 402
                /\ g.thrown = <<Error400, Error400, Error503>> => g.response.status = 502

C26_Witness ==
    \E c \in CallIds :
        LET g == gate[c] IN
        /\ Returned(g)
        /\ g.thrown = <<Error503, Error503, Error400>>
        /\ g.response.status = 402

\* C27: the retry loop retries only when a settle call throws: once a
\* settle call of a gate call has returned a value (a result with success =
\* false included), the gate call makes no further settle call.
C27_NoRetryAfterReturn ==
    \A c \in CallIds :
        LET g == gate[c] IN
        /\ Count(g.events, "settleReturned") <= 1
        /\ \A i, j \in 1..Len(g.events) :
              (g.events[i] = "settleReturned" /\ g.events[j] = "settle") => j < i
        /\ Count(g.events, "settleReturned") = 1 => SettleCalls(g) = Len(g.thrown) + 1

C27_Witness ==
    \E c \in CallIds :
        LET g == gate[c] IN
        /\ Returned(g)
        /\ Len(g.thrown) = 1
        /\ g.settlementResult.settlement.defined
        /\ ~g.settlementResult.settlement.success
        /\ SettleCalls(g) = 2

\* The response returned is the error response that settlePayment built
\* (402 SettlementFailed or 502 ServiceUnavailable).
SettlementErrorReturned(g) ==
    /\ Returned(g)
    /\ g.settlementResult.defined
    /\ ~g.settlementResult.ok
    /\ g.response = g.settlementResult.response

\* The response returned is a rejection built by ensurePayment: the 500 of
\* a configuration error, or the 402 for a missing header, an invalid
\* header, no matching requirement or a failed verification.
RejectionReturned(g) ==
    /\ Returned(g)
    /\ g.response.body.kind = "x402"
    /\ ~g.settlementResult.defined

\* C28: a settlement-error response (402 or 502) is returned only in calls
\* in which the protected operation was invoked, and every rejection is
\* returned only in calls in which it was never invoked; every error
\* response of the gate is one or the other.
C28_ErrorExitsAroundOperation ==
    \A c \in CallIds :
        LET g == gate[c] IN
        /\ SettlementErrorReturned(g) =>
              /\ Count(g.events, "handlerReturned") = 1
              /\ g.response.status \in {402, 502}
        /\ RejectionReturned(g) =>
              /\ Count(g.events, "handler") = 0
              /\ g.response.status \in {402, 500}
        /\ (Returned(g) /\ g.response.body.kind = "x402") =>
              (SettlementErrorReturned(g) \/ RejectionReturned(g))

C28_Witness ==
    \E c \in CallIds :
        LET g == gate[c] IN
        /\ RejectionReturned(g)
        /\ g.response.body.error = "Unable to find matching payment requirements"
        /\ Count(g.events, "handler") = 0

\* The facilitator's verify call of this gate call threw.
VerifyThrew(g) ==
    Done(g) /\ Count(g.events, "verify") = 1 /\ ~g.verification.defined

\* C29: when the facilitator's verify call throws, the gate does not throw:
\* it returns a challenge that carries the transport error as
\* verificationError and no payer, and invokes neither the operation nor
\* settle.
C29_VerifyThrowIsChallenge ==
    \A c \in CallIds :
        LET g == gate[c] IN
        VerifyThrew(g) =>
            /\ Returned(g)
            /\ g.response.status = 402
            /\ g.response.body.verificationError # Undefined
            /\ g.response.body.payer = Undefined
            /\ Count(g.events, "handler") = 0
            /\ SettleCalls(g) = 0

\* The call was given a builder and the builder has been awaited.
BuilderRan(g) ==
    g.impl = "plugin" /\ g.config.builder /\ g.pc \notin {"idle", "start"}

\* The builder is invoked exactly once, before the requirement is built,
\* with the speculatively decoded payload: undefined when the header is
\* absent or undecodable (the builder then prices 0), the payload otherwise.
BuilderContract(g) ==
    /\ Count(g.events, "builder") = 1
    /\ g.events[1] = "builder"
    /\ g.header.kind \in {"absent", "malformed"} =>
          /\ ~g.rawPayment.defined
          /\ g.concreteConfig.price = 0
    /\ g.header.kind = "payload" =>
          /\ g.rawPayment.defined
          /\ g.rawPayment.claimed = g.header.claimed
          /\ g.rawPayment.x402Version = X402_VERSION

\* The 402 challenge whose requirement is built from the builder's config.
ChallengeFromBuilderConfig(g) ==
    /\ Returned(g)
    /\ g.response.status = 402
    /\ Count(g.events, "decode") = 1
    /\ Len(g.response.body.accepts) = 1
    /\ g.response.body.accepts[1].network = g.concreteConfig.network
    /\ g.response.body.accepts[1].payTo = g.concreteConfig.payTo
    /\ g.response.body.accepts[1].maxAmountRequired = g.concreteConfig.price * 10000

\* C30 as claimed: a builder is invoked exactly once, before the
\* requirement is built, with the speculatively decoded payload; with an
\* absent or undecodable header it still runs, with rawPayment undefined
\* and no exception escaping; an undecodable header is then rejected with a
\* 402 challenge built from the builder's config.
C30_Original ==
    \A c \in CallIds :
        LET g == gate[c] IN
        BuilderRan(g) =>
            /\ BuilderContract(g)
            /\ (Done(g) /\ g.header.kind = "malformed") => ChallengeFromBuilderConfig(g)

\* C30: as above, the undecodable header being rejected with the 402
\* challenge built from the builder's config when that config yields a
\* requirement, and with the 500 of a configuration error when it does not.
C30_BuilderAndSpeculativeDecode ==
    \A c \in CallIds :
        LET g == gate[c] IN
        BuilderRan(g) =>
            /\ BuilderContract(g)
            /\ (Done(g) /\ g.header.kind \in {"absent", "malformed"}) =>
                  /\ Returned(g)
                  /\ NoneInvoked(g)
            /\ (Done(g) /\ g.header.kind = "malformed") =>
                  IF RequirementBuilds(g) THEN ChallengeFromBuilderConfig(g)
                  ELSE g.response.status = 500

C30_Witness ==
    \E c \in CallIds :
        LET g == gate[c] IN
        /\ BuilderRan(g)
        /\ g.header.kind = "malformed"
        /\ ChallengeFromBuilderConfig(g)
        /\ g.events = <<"builder", "requirement", "decode", "return">>

\* Both decodes of a call were reached: the speculative one of the plugin's
\* gateWithX402Payment, and the authoritative one of ensurePayment, which
\* looks at the X-PAYMENT header once the requirement is built.
AuthoritativeDecodeReached(g) ==
    g.impl = "plugin" /\ Count(g.events, "requirement") > 0

\* The authoritative decode failed: it was attempted and left no payload.
AuthoritativeDecodeFailed(g) ==
    Count(g.events, "decode") > 0 /\ ~g.decodedPayment.defined

C32_PayloadVersionIsOne ==
    /\ \A c \in CallIds :
          LET g == gate[c] IN
          /\ (Count(g.events, "builder") > 0 /\ g.rawPayment.defined) =>
                g.rawPayment.x402Version = X402_VERSION
          /\ (Count(g.events, "verify") > 0 \/ Count(g.events, "settle") > 0) =>
                g.decodedPayment.x402Version = X402_VERSION
    /\ (Count(tool.events, "verify") > 0 \/ Count(tool.events, "settle") > 0) =>
          tool.decodedPayment.x402Version = X402_VERSION

C32_Witness ==
    \E c \in CallIds :
        LET g == gate[c] IN
        /\ g.header = Payload(2, "base-sepolia", "0xaa")
        /\ Count(g.events, "builder") > 0
        /\ Count(g.events, "settleReturned") > 0
        /\ g.rawPayment.x402Version = X402_VERSION
        /\ g.decodedPayment.x402Version = X402_VERSION

\* ------------------------------------------------------------------------
\* The ledger on its own: setOwedUSD applied to any key and amount
\* ------------------------------------------------------------------------
LedgerSet(addr, usd) ==
    /\ pendingByAddress' = setOwedUSD(pendingByAddress, addr, usd)
    /\ UNCHANGED <<gate, started, tool>>

NextLedger == \E addr \in LedgerKeys, usd \in 0..MaxOwedUSD : LedgerSet(addr, usd)

SpecLedger == Init /\ [][NextLedger]_vars

\* Two keys name the same address: they differ at most in letter case.
SameAddress(a, b) == LowerCase(a) = LowerCase(b)

\* C33: ledger keys are lowercase-normalized: after set(b, x), get(a)
\* returns x for every a that differs from b only in letter case.
C33_KeysAreCaseInsensitive ==
    [][\A b \in LedgerKeys, x \in 0..MaxOwedUSD :
          pendingByAddress' = setOwedUSD(pendingByAddress, b, x) =>
              \A a \in LedgerKeys :
                  SameAddress(a, b) => getOwedUSD(pendingByAddress', a) = x]_vars

\* The expose list names X-PAYMENT-RESPONSE, in any letter case.
Exposes(exposeHeaders) ==
    \E i \in 1..Len(exposeHeaders) :
        LowerCase(exposeHeaders[i]) = LowerCase(X_PAYMENT_RESPONSE_HEADER)

\* `after` is the expose list `before` brought up to date: it names the
\* header, keeps every entry of `before` in place, and has the name appended
\* only when `before` lacked it.
ExposedFrom(before, after) ==
    /\ Exposes(after)
    /\ Len(after) >= Len(before)
    /\ SubSeq(after, 1, Len(before)) = before
    /\ after = IF Exposes(before) THEN before
               ELSE before \o <<X_PAYMENT_RESPONSE_HEADER>>

\* The caller got a response that carries X-PAYMENT-RESPONSE.
ReturnedPaymentResponse(g) ==
    Returned(g) /\ g.response.headers.xPaymentResponse # <<>>

LedgerEntries == {<<>>} \cup {<<usd>> : usd \in 0..MaxOwedUSD}

\* The amount the challenge of call g quotes when its builder reads `ledger`.
QuotedAmount(ledger, g) ==
    createPaymentRequirements(
        dynamicConfig(ledger, g.rawPayment, g.config.network), g.impl
    ).requirement.maxAmountRequired

\* A call priced by the builder, claiming an address, that verify rejected.
ClaimedAndRejected(g) ==
    BuilderRan(g) /\ VerificationRejected(g) /\ g.rawPayment.claimed # Undefined

\* The 402 of such a call quotes the amount derived from the ledger entry
\* of the address the unverified credential claims.
QuotesClaimedDebt(g) ==
    /\ RejectedChallenge(g)
    /\ g.response.body.accepts[1].maxAmountRequired = QuotedAmount(pendingByAddress, g)
    /\ QuotedAmount(pendingByAddress, g)
          = getOwedUSD(pendingByAddress, g.rawPayment.claimed) * 10000

SettleConfirmed(g) ==
    /\ Count(g.events, "settleReturned") > 0
    /\ g.settlementResult.settlement.defined
    /\ g.settlementResult.settlement.success

\* C36 as stated: the response returned by gateWithX402Payment carries
\* X-PAYMENT-RESPONSE only if a settle attempt of the same call returned
\* success = true, even if the operation's own response already carried one.
C36_Original ==
    \A c \in CallIds :
        LET g == gate[c] IN
        ReturnedPaymentResponse(g) => SettleConfirmed(g)

\* C36: the gate puts X-PAYMENT-RESPONSE on the response it returns only
\* if a settle attempt of the same call returned success = true, the value
\* then being that settlement's evidence; when settlement is skipped or
\* settle returns success = false the gate adds none, and the header is on
\* the returned response exactly when the operation's own response carried
\* it, with the operation's value.
C36_HeaderOnlyFromConfirmedSettle ==
    \A c \in CallIds :
        LET g == gate[c] IN
        Returned(g) =>
            IF SettleConfirmed(g)
            THEN decodePaymentResponseHeader(g.response.headers)
                     = Evidence(g.settlementResult.settlement)
            ELSE IF ReturnedOperationResponse(g)
            THEN g.response.headers.xPaymentResponse
                     = g.operationResponse.headers.xPaymentResponse
            ELSE g.response.headers.xPaymentResponse = <<>>

C36_Witness ==
    \E c \in CallIds :
        LET g == gate[c] IN
        /\ ReturnedOperationResponse(g)
        /\ g.impl = "plugin"
        /\ g.operationResponse.status = 200
        /\ Count(g.events, "settleReturned") = 1
        /\ ~g.settlementResult.settlement.success
        /\ g.operationResponse.headers.xPaymentResponse = UpstreamPaymentResponse
        /\ g.response.headers.xPaymentResponse = UpstreamPaymentResponse

\* What C37 asks of one call that was given an onSettle callback.
OnSettleDiscipline(g) ==
    LET ev == g.events IN
    /\ Count(ev, "onSettle") <= 1
    /\ \A j \in 1..Len(ev) :
          ev[j] = "onSettle" =>
              /\ g.settlementResult.defined
              /\ \A i \in 1..Len(ev) :
                    (ev[i] \in {"return", "throw"}) <=> (i > j)
    /\ (Done(g) /\ g.settlementResult.defined /\ g.settlementResult.ok) =>
          Count(ev, "onSettle") = 1
    /\ (Done(g) /\ Count(ev, "handler") = 0) => Count(ev, "onSettle") = 0
    /\ (Done(g) /\ g.settlementResult.defined /\ ~g.settlementResult.ok) =>
          Count(ev, "onSettle") = 0

\* C37: onSettle is invoked at most once per gate call, after the
\* settlement step has produced its outcome and before the call returns; it
\* is invoked for settled and for skipped outcomes, and never in calls
\* rejected before the operation ran nor in calls whose settlement ended in
\* a 402/502 settlement error.
C37_OnSettleOnceAfterOutcome ==
    \A c \in CallIds :
        LET g == gate[c] IN
        g.options.onSettle # "none" => OnSettleDiscipline(g)

\* ------------------------------------------------------------------------
\* Progress of a call.  Each step of a call past its start is either
\* synchronous code, which JavaScript runs to completion, or the
\* continuation of an awaited promise (the builder, verify, the operation,
\* settle, the backoff timer, onSettle), which the event loop runs once the
\* promise is settled; every such promise is taken to settle.  Starting a
\* call and taking its result are the caller's and carry no fairness.
\* ------------------------------------------------------------------------
Progress(c) ==
    /\ \/ ResolveConfig(c)
       \/ EnsurePayment(c)
       \/ Verify(c)
       \/ Handler(c)
       \/ SettlePayment(c)
       \/ SettleAttempt(c)
       \/ Sleep(c)
       \/ Settled(c)
       \/ OnSettle(c)
    /\ RetryEnvironmentNext

SpecLive == Init /\ [][NextRetry]_vars /\ \A c \in SeqCalls : WF_vars(Progress(c))

\* The call is under way: begun and not yet resolved or rejected.
InFlight(g) == g.pc \notin {"idle", "done"}

\* C38: every facilitator call, the operation, onSettle and every sleep
\* returning or throwing in the end, each gate call that was begun
\* completes, with a response or an exception; and the settle calls of one
\* call never exceed maxAttempts.
C38_EveryCallCompletes ==
    /\ \A c \in CallIds : InFlight(gate[c]) ~> Done(gate[c])
    /\ [](\A c \in CallIds : SettleCalls(gate[c]) <= gate[c].options.retry.maxAttempts)

C38_Witness ==
    \E c \in CallIds :
        LET g == gate[c] IN
        /\ Done(g)
        /\ g.options.retry.maxAttempts = MaxRetryAttempts
        /\ SettleCalls(g) = MaxRetryAttempts
        /\ Count(g.events, "sleep") = MaxRetryAttempts - 1
        /\ Count(g.events, "settleReturned") = 0

ToolSettleThrew == Count(tool.events, "settleThrew") > 0

\* C40: a paid tool calls settle at most once per tool call, with no retry;
\* when that call throws, the result the tool had computed is discarded and
\* an isError result with the error 'Settlement failed' and the accepts
\* requirement is returned in its place.
C40_SingleSettleFailureDiscardsResult ==
    /\ Count(tool.events, "settle") <= 1
    /\ ToolSettleThrew => Count(tool.events, "settle") = 1
    /\ (ToolDone /\ ToolSettleThrew) =>
          /\ ToolChallenge
          /\ tool.result.error = "Settlement failed"
          /\ tool.result.accepts = <<tool.paymentRequirements>>
          /\ tool.result # tool.cbResult
          /\ ~tool.result.meta.defined
          /\ tool.cbResult.defined
          /\ ~tool.executionError

C40_Witness ==
    /\ ToolDone
    /\ ToolSettleThrew
    /\ tool.events[Len(tool.events) - 2] = "settle"
    /\ tool.cbResult.defined
    /\ ~tool.cbResult.isError
    /\ tool.result.isError
    /\ tool.result.error = "Settlement failed"
    /\ Len(tool.result.accepts) = 1

=============================================================================
